---- MODULE Spec2Model ----
(***************************************************************************)
(* A model of the twilly / twilio_rust request dispatch, eager pagination  *)
(* and credential validation.  The repository holds three iterations of    *)
(* the library: src/src (the first, `Twilio`), src/twilio_rust and         *)
(* src/twilly.  Each iteration's dispatch is modelled as written.          *)
(***************************************************************************)
EXTENDS Integers, Sequences, FiniteSets, TLC

VARIABLES
    client,     \* the Client: its TwilioConfig (account_sid, auth_token)
    crate,      \* which iteration's dispatch is being called
    entry,      \* "send_request" or "send_request_and_ignore_response"
    req,        \* the request descriptor of the call in progress
    wire,       \* the HTTP request as put on the wire by the call
    sends,      \* every HTTP request the call in progress has sent, in order
    outcome,    \* what `.send()` gave: a transport failure, or a response
                \* (its status and the name of its body)
    result,     \* what the dispatch returned to its caller
    dpc,        \* position of the dispatch call: idle, in_flight, done
    family,     \* the resource family whose list() is running
    largs,      \* list(): the filter parameters the caller passed
    server,     \* the remote collection: the chain of pages
    lpc,        \* position of list(): idle, first, next (a page awaited), done
    page,       \* list(): the current page (typed)
    results,    \* list(): the accumulator
    calls,      \* list(): the wire requests issued so far, in order
    log,        \* list(): how each dispatch of the run went, in order: how the
                \* remote behaved, Ok or Err, and which page was served
    ret,        \* list(): the value returned to the caller
    bpc,        \* position of TwilioConfig::build: idle, done
    bArgs,      \* the arguments of TwilioConfig::build
    built,      \* what TwilioConfig::build produced: a config or a panic
    spc,        \* position of a Sync Service create/update: idle, in_flight,
                \* done
    sop,        \* the Sync Service operation called and its parameters
    swire,      \* the HTTP requests that operation has sent, in order
    sret,       \* what the operation returned
    resource,   \* the state of the remote resource a GET reads
    prev,       \* the previous GET of the client: its request, who answered
                \* and its result
    shpc,       \* position of the interactive shell: menu, awaiting,
                \* terminated
    schoice,    \* the menu action chosen and the SID typed in
    sres,       \* what the library operation returned to the shell
    printed,    \* what the shell last wrote, and where
    rpc,        \* position of the Sync Map rename flow: the step it is at
    rremote,    \* the Sync Maps of the service: the original, the temporary and the renamed one
    rmem,       \* rename: the items fetched from the original map, once fetched
    rlog,       \* rename: the prompts answered and requests issued so far, in order
    dapc,       \* position of the delete of all conversations
    davariant,  \* which implementation runs it: the twilly_cli action, the twilio_cli action or twilio_rust's delete_all
    daremote,   \* the conversations of the account: how many there were and which are left
    dalist,     \* delete all: the conversations as listed, once listed
    dalog,      \* delete all: the prompts answered and requests issued so far, in order
    mpc,        \* position of get_action_choice_from_user: idle, shown, returned
    mcall,      \* the call: which shell's function, and the caller's options
    mpick,      \* what the user did at the prompt: the entry picked, or a cancel
    mret,       \* what get_action_choice_from_user returned
    fpc,        \* position of a list flow: idle, list, actions, left, panicked
    fflow,      \* which flow: conversations, sync_services, documents, maps, environments
    fmem,       \* the flow's in-memory list of resources
    fsel,       \* the selected index (Option<usize>, counted from 1 here)
    flast,      \* the last thing the user did and what the flow did about it
    fsent,      \* the DELETE requests issued: endpoint family and sid, in order
    apc,        \* position of the account flow: idle, selected, panicked
    acall,      \* the last status action: shell, action, confirmation, outcome
    astatus,    \* the status of the selected account in the in-memory list
    asent,      \* the Status values sent in update requests, in order
    aremote,    \* the status of the account at Twilio
    stpc,       \* position of main: idle, load, confirm, credentials, client, check, store, menu, panicked
    stvariant,  \* which shell's main runs
    stloaded,   \* the loaded_config flag
    stconfig,   \* the TwilioConfig in memory ("" for the default, empty one)
    stdisk,     \* the profile on disk ("" for none or empty)
    stlog       \* what main did so far: step, how it went, the config involved

vars == <<client, crate, entry, req, wire, sends, outcome, result, dpc,
          family, largs, server, lpc, page, results, calls, log, ret,
          bpc, bArgs, built, spc, sop, swire, sret, resource, prev,
          shpc, schoice, sres, printed,
          rpc, rremote, rmem, rlog,
          dapc, davariant, daremote, dalist, dalog,
          mpc, mcall, mpick, mret,
          fpc, fflow, fmem, fsel, flast, fsent,
          apc, acall, astatus, asent, aremote,
          stpc, stvariant, stloaded, stconfig, stdisk, stlog>>

dispatchVars == <<crate, entry, req, wire, sends, outcome, result, dpc>>
listVars == <<family, largs, server, lpc, page, results, calls, log, ret>>
buildVars == <<bpc, bArgs, built>>
syncVars == <<spc, sop, swire, sret>>
repeatVars == <<resource, prev>>
shellVars == <<shpc, schoice, sres, printed>>
renameVars == <<rpc, rremote, rmem, rlog>>
bulkVars == <<dapc, davariant, daremote, dalist, dalog>>
menuVars == <<mpc, mcall, mpick, mret>>
flowVars == <<fpc, fflow, fmem, fsel, flast, fsent>>
acctVars == <<apc, acall, astatus, asent, aremote>>
startVars == <<stpc, stvariant, stloaded, stconfig, stdisk, stlog>>
cliVars == <<renameVars, bulkVars, menuVars, flowVars, acctVars, startVars>>
coreVars == <<client, dispatchVars, listVars, buildVars, syncVars,
              repeatVars, shellVars>>
\* what the Sync Map rename leaves alone
exceptRenameVars == <<coreVars, bulkVars, menuVars, flowVars, acctVars, startVars>>
\* what the bulk delete of conversations leaves alone
exceptBulkVars == <<coreVars, renameVars, menuVars, flowVars, acctVars, startVars>>
\* what the action menu leaves alone
exceptMenuVars == <<coreVars, renameVars, bulkVars, flowVars, acctVars, startVars>>
\* what the resource list flow leaves alone
exceptFlowVars == <<coreVars, renameVars, bulkVars, menuVars, acctVars, startVars>>
\* what the account status actions leaves alone
exceptAcctVars == <<coreVars, renameVars, bulkVars, menuVars, flowVars, startVars>>
\* what the shell startup leaves alone
exceptStartVars == <<coreVars, renameVars, bulkVars, menuVars, flowVars, acctVars>>

None == [some |-> FALSE, v |-> "None"]
Some(x) == [some |-> TRUE, v |-> x]

(***************************************************************************)
(* JSON documents as the remote service sends them.  A document is a       *)
(* tagged value; an object is a function from field names to documents.    *)
(***************************************************************************)
JStr(s) == [t |-> "str", v |-> s]
JNum(n) == [t |-> "num", v |-> n]
JBool(b) == [t |-> "bool", v |-> b]
JNull == [t |-> "null", v |-> "null"]
JArr(s) == [t |-> "arr", v |-> s]
JObj(f) == [t |-> "obj", v |-> f]
\* a body that is not JSON at all (an HTML error page, an empty body)
NotJson == [t |-> "invalid", v |-> "<html>"]
\* what looking up a field the object does not have gives
Absent == [t |-> "absent", v |-> "absent"]

JField(o, f) == IF f \in DOMAIN o THEN o[f] ELSE Absent

(***************************************************************************)
(* Target types of deserialization (serde::Deserialize).                   *)
(***************************************************************************)
TString == [k |-> "String"]
TU16 == [k |-> "u16"]
TU32 == [k |-> "u32"]
TOption(ty) == [k |-> "Option", of |-> ty]
TVec(ty) == [k |-> "Vec", of |-> ty]
TStruct(fields) == [k |-> "struct", fields |-> fields]
TBool == [k |-> "bool"]
\* an enum whose variants deserialize from these strings
TEnum(variants) == [k |-> "enum", variants |-> variants]

DeOk(x) == [ok |-> TRUE, value |-> x]
DeErr == [ok |-> FALSE, value |-> "serde error"]

\* serde_json's from_slice::<T>: a typed value, or an error.  Unknown fields
\* of an object are ignored, a missing or null Option field is None, a
\* number must fit its integer type.
RECURSIVE Deserialize(_, _)
Deserialize(ty, jv) ==
    CASE ty.k = "String" ->
            IF jv.t = "str" THEN DeOk(jv.v) ELSE DeErr
      [] ty.k = "u16" ->
            IF jv.t = "num" /\ jv.v >= 0 /\ jv.v <= 65535 THEN DeOk(jv.v) ELSE DeErr
      [] ty.k = "u32" ->
            \* every number of the model is below 2^31, so within u32 when >= 0
            IF jv.t = "num" /\ jv.v >= 0 THEN DeOk(jv.v) ELSE DeErr
      [] ty.k = "bool" ->
            IF jv.t = "bool" THEN DeOk(jv.v) ELSE DeErr
      [] ty.k = "enum" ->
            IF jv.t = "str" /\ jv.v \in ty.variants THEN DeOk(jv.v) ELSE DeErr
      [] ty.k = "Option" ->
            IF jv.t \in {"null", "absent"} THEN DeOk(None)
            ELSE LET r == Deserialize(ty.of, jv)
                 IN IF r.ok THEN DeOk(Some(r.value)) ELSE DeErr
      [] ty.k = "Vec" ->
            IF jv.t = "arr" /\ \A i \in DOMAIN jv.v : Deserialize(ty.of, jv.v[i]).ok
            THEN DeOk([i \in DOMAIN jv.v |-> Deserialize(ty.of, jv.v[i]).value])
            ELSE DeErr
      [] ty.k = "struct" ->
            IF jv.t = "obj"
               /\ \A f \in DOMAIN ty.fields :
                     Deserialize(ty.fields[f], JField(jv.v, f)).ok
            THEN DeOk([f \in DOMAIN ty.fields |->
                         Deserialize(ty.fields[f], JField(jv.v, f)).value])
            ELSE DeErr

\* pub struct TwilioApiError { code: u32, message, more_info, status: u16 }
TwilioApiError ==
    TStruct([code |-> TU32, message |-> TString, more_info |-> TString,
             status |-> TU16])

\* src/src: struct Account, every field a required String
SrcAccount ==
    TStruct([status |-> TString, date_updated |-> TString,
             auth_token |-> TString, friendly_name |-> TString,
             owner_account_sid |-> TString, uri |-> TString,
             sid |-> TString, date_created |-> TString,
             type |-> TString])

\* account.rs: enum Status, #[serde(rename_all = "lowercase")]
Status == TEnum({"active", "suspended", "closed"})

\* account.rs (twilly, twilio_rust): pub struct Account
Account ==
    TStruct([status |-> Status, date_updated |-> TString,
             friendly_name |-> TString, owner_account_sid |-> TString,
             uri |-> TString, sid |-> TString, date_created |-> TString,
             type |-> TString])

\* the type the caller asks the dispatch for: the crate's Account
TargetType(c) == IF c = "src" THEN SrcAccount ELSE Account

(***************************************************************************)
(* Strings that matter character by character are sequences of tokens.  A  *)
(* URL string is kept split at its '?': the part before it and the query   *)
(* string; the string itself is base, then "?" and query when query is not *)
(* empty.                                                                  *)
(***************************************************************************)
Url(base, query) == [base |-> base, query |-> query]

\* application/x-www-form-urlencoded byte serializer (serde_urlencoded)
EncodeChar(c) ==
    CASE c = " " -> "+"
      [] c = "&" -> "%26"
      [] c = "=" -> "%3D"
      [] OTHER -> c

Encode(s) == [i \in DOMAIN s |-> EncodeChar(s[i])]

\* serde_urlencoded::to_string of a params struct: the fields in declaration
\* order, a None field skipped, the pairs joined with '&'
RECURSIVE UrlEncoded(_)
UrlEncoded(fields) ==
    IF fields = <<>> THEN <<>>
    ELSE LET f == Head(fields)
             rest == UrlEncoded(Tail(fields))
         IN IF ~f.v.some THEN rest
            ELSE <<f.k, "=">> \o Encode(f.v.v)
                 \o (IF rest = <<>> THEN <<>> ELSE <<"&">> \o rest)

\* Serialize for Option<&U>: None serializes to nothing
SerializeParams(params) ==
    IF params.some THEN UrlEncoded(params.v) ELSE <<>>

\* RequestBuilder::query: the pairs are appended to the URL's query string
AppendQuery(query, encoded) ==
    IF encoded = <<>> THEN query
    ELSE IF query = <<>> THEN encoded
    ELSE query \o <<"&">> \o encoded

NoBody == [content_type |-> "none", form |-> <<>>]
FormBody(encoded) ==
    [content_type |-> "application/x-www-form-urlencoded", form |-> encoded]

\* (mutant of BasicAuth: the two credentials change places)
BasicAuth_mut_swapped(config) ==
    [username |-> config.auth_token, password |-> config.account_sid]

BasicAuth(config) ==
    [username |-> config.account_sid, password |-> config.auth_token]

\* (mutant of send_http_request: the parameters go to the query string
\* whatever the method)
send_http_request_mut_query_always(config, method, url, params) ==
    [method |-> method, base |-> url.base,
     query |-> AppendQuery(url.query, SerializeParams(params)),
     body |-> NoBody, auth |-> BasicAuth(config)]

\* Client::send_http_request up to `.send()`: the request put on the wire.
\* twilio_rust's send_request builds its request the same way.
send_http_request(config, method, url, params) ==
    IF method = "GET"
    THEN [method |-> method, base |-> url.base,
          query |-> AppendQuery(url.query, SerializeParams(params)),
          body |-> NoBody, auth |-> BasicAuth(config)]
    ELSE [method |-> method, base |-> url.base, query |-> url.query,
          body |-> FormBody(SerializeParams(params)),
          auth |-> BasicAuth(config)]

\* src/src Twilio::send_request up to `.send()`: the URL is built from the
\* endpoint (only SubResource::Account is ever passed), no parameters
src_build_request(config, method) ==
    [method |-> method,
     base |-> <<"https://api.twilio.com/2010-04-01/Accounts/",
                config.account_sid, ".json">>,
     query |-> <<>>, body |-> NoBody, auth |-> BasicAuth(config)]

(***************************************************************************)
(* What `.send()` gives, and what a dispatch returns.                      *)
(***************************************************************************)
SendFailed(cause) ==
    [ok |-> FALSE, cause |-> cause, status |-> 0, body |-> Absent]
Response(status, body) ==
    [ok |-> TRUE, cause |-> "none", status |-> status, body |-> body]

Ok(v) == [tag |-> "Ok", kind |-> "none", val |-> v]
Err(kind, payload) == [tag |-> "Err", kind |-> kind, val |-> payload]
Panicked(msg) == [tag |-> "panic", kind |-> "panic", val |-> msg]
Unit == "()"

\* reqwest::StatusCode::OK
StatusCode_OK == 200

\* StatusCode::is_success
is_success(status) == 200 <= status /\ status < 300

\* the non-success arm shared by the dispatch entry points
parse_twilio_error(body) ==
    LET e == Deserialize(TwilioApiError, body)
    IN IF e.ok THEN Err("TwilioError", e.value)
       ELSE Err("ParsingError", "reqwest::Error")

parse_body(T, body) ==
    LET r == Deserialize(T, body)
    IN IF r.ok THEN Ok(r.value) ELSE Err("ParsingError", "reqwest::Error")

\* (mutant of send_request: the client reads a response on its first call
\* only)
send_request_mut_first_call_only(T, sent) ==
    IF ~sent.ok THEN Err("NetworkError", sent.cause)
    ELSE IF prev.some THEN Err("ParsingError", "reqwest::Error")
    ELSE IF is_success(sent.status) THEN parse_body(T, sent.body)
    ELSE parse_twilio_error(sent.body)

\* twilly Client::send_request, from the result of send_http_request on
send_request(T, sent) ==
    IF ~sent.ok THEN Err("NetworkError", sent.cause)
    ELSE IF is_success(sent.status) THEN parse_body(T, sent.body)
    ELSE parse_twilio_error(sent.body)

\* (mutant of send_request_and_ignore_response: a success body is read as
\* JSON before it is dropped)
send_request_and_ignore_response_mut_reads_body(sent) ==
    IF ~sent.ok THEN Err("NetworkError", sent.cause)
    ELSE IF is_success(sent.status)
         THEN IF sent.body.t = "invalid"
              THEN Err("ParsingError", "reqwest::Error")
              ELSE Ok(Unit)
    ELSE parse_twilio_error(sent.body)

\* (mutant of send_request_and_ignore_response: the error body is not
\* read either)
send_request_and_ignore_response_mut_error_unread(sent) ==
    IF ~sent.ok THEN Err("NetworkError", sent.cause)
    ELSE IF is_success(sent.status) THEN Ok(Unit)
    ELSE Err("ParsingError", "reqwest::Error")

\* twilly Client::send_request_and_ignore_response
send_request_and_ignore_response(sent) ==
    IF ~sent.ok THEN Err("NetworkError", sent.cause)
    ELSE IF is_success(sent.status) THEN Ok(Unit)
    ELSE parse_twilio_error(sent.body)

\* twilio_rust Client::send_request: only StatusCode::OK takes the success arm
twilio_rust_send_request(T, sent) ==
    IF ~sent.ok THEN Err("NetworkError", sent.cause)
    ELSE IF sent.status = StatusCode_OK THEN parse_body(T, sent.body)
    ELSE parse_twilio_error(sent.body)

\* src/src Twilio::send_request: `.send().unwrap()` panics on a transport
\* failure; the match scrutinee is the constant StatusCode::OK, so the first
\* arm is taken whatever the response's status
src_send_request(T, sent) ==
    IF ~sent.ok THEN Panicked("called Result::unwrap on an Err value")
    ELSE IF StatusCode_OK = StatusCode_OK THEN parse_body(T, sent.body)
    ELSE LET e == Deserialize(TwilioApiError, sent.body)
         IN IF e.ok THEN Err("TwilioError", e.value) ELSE Panicked("Err!")

\* the dispatch of the crate and entry point called
Dispatch(c, e, T, sent) ==
    CASE c = "src" -> src_send_request(T, sent)
      [] c = "twilio_rust" -> twilio_rust_send_request(T, sent)
      [] c = "twilly" /\ e = "send_request" -> send_request(T, sent)
      [] c = "twilly" /\ e = "send_request_and_ignore_response" ->
            send_request_and_ignore_response(sent)

BuildRequest(c, config, r) ==
    IF c = "src" THEN src_build_request(config, r.method)
    ELSE send_http_request(config, r.method, r.url, r.params)

\* (mutant of requests_sent: the request is sent a second time)
requests_sent_mut_twice(c, config, r) ==
    <<BuildRequest(c, config, r), BuildRequest(c, config, r)>>

\* the HTTP requests one dispatch call sends: the one `.send()` of
\* send_http_request (of send_request in the earlier iterations); no path of
\* the dispatch comes back to it
requests_sent(c, config, r) == <<BuildRequest(c, config, r)>>

(***************************************************************************)
(* The dispatch calls and the remote's answers the model draws from.       *)
(***************************************************************************)
\* the credentials of lib.rs's own test config_on_good_credentials
TestConfig ==
    [account_sid |-> "AC11111111111111111111111111111111",
     auth_token |-> "11111111111111111111111111111111"]

ConversationsUrl ==
    Url(<<"https://conversations.twilio.com/v1/Conversations">>, <<>>)
AccountsUrl ==
    Url(<<"https://api.twilio.com", "/2010-04-01/Accounts.json">>,
        <<"PageSize", "=", "5">>)

\* account.rs ListOrUpdateParams, serialized in PascalCase
ListOrUpdateParams(friendly_name, status) ==
    <<[k |-> "FriendlyName", v |-> friendly_name],
      [k |-> "Status", v |-> status]>>

FriendlyNames ==
    {None, Some(<<"a">>), Some(<<"a", " ", "b">>), Some(<<"a", "&", "b", "=">>)}
Statuses == {None, Some(<<"closed">>)}

ParamChoices ==
    {None} \cup {Some(ListOrUpdateParams(n, s)) : n \in FriendlyNames, s \in Statuses}

Methods == {"GET", "POST", "DELETE"}

Requests ==
    [method : Methods, url : {ConversationsUrl, AccountsUrl}, params : ParamChoices]

\* the one call of the first iteration: get_account
SrcRequest ==
    [method |-> "GET",
     url |-> Url(<<"https://api.twilio.com/2010-04-01/Accounts/",
                   TestConfig.account_sid, ".json">>, <<>>),
     params |-> None]

AccountDoc ==
    JObj([status |-> JStr("active"), date_updated |-> JStr("d2"),
          auth_token |-> JStr("tok"), friendly_name |-> JStr("main"),
          owner_account_sid |-> JStr("AC1"), uri |-> JStr("/Accounts/AC1"),
          sid |-> JStr("AC1"), date_created |-> JStr("d1"),
          type |-> JStr("Full")])

ErrorDoc(code, status) ==
    JObj([code |-> JNum(code), message |-> JStr("m"),
          more_info |-> JStr("https://www.twilio.com/docs/errors"),
          status |-> JNum(status)])

\* the response bodies the remote is made to send, by name
Bodies ==
    {"account", "account_no_sid", "error_404", "error_429", "error_status_70000",
     "error_code_negative", "error_no_message", "error_extra_field",
     "error_code_string", "not_json"}

BodyDoc(b) ==
    CASE b = "account" -> AccountDoc
      \* an Account with required fields missing
      [] b = "account_no_sid" ->
            JObj([status |-> JStr("active"), friendly_name |-> JStr("main")])
      [] b = "error_404" -> ErrorDoc(20404, 404)
      [] b = "error_429" -> ErrorDoc(20429, 429)
      \* a status no u16 holds
      [] b = "error_status_70000" -> ErrorDoc(20500, 70000)
      \* a code no u32 holds
      [] b = "error_code_negative" -> ErrorDoc(-1, 500)
      [] b = "error_no_message" ->
            JObj([code |-> JNum(20404), more_info |-> JStr("u"),
                  status |-> JNum(404)])
      \* an error body with a field the struct does not know
      [] b = "error_extra_field" ->
            JObj([code |-> JNum(20003), message |-> JStr("m"),
                  more_info |-> JStr("u"), status |-> JNum(401),
                  detail |-> JStr("x")])
      [] b = "error_code_string" ->
            JObj([code |-> JStr("20404"), message |-> JStr("m"),
                  more_info |-> JStr("u"), status |-> JNum(404)])
      [] b = "not_json" -> NotJson

HttpStatuses == {200, 201, 299, 300, 404, 429}
Causes == {"timeout", "connect"}

NoRequest == [method |-> "none", url |-> Url(<<>>, <<>>), params |-> None]
NoWire ==
    [method |-> "none", base |-> <<>>, query |-> <<>>, body |-> NoBody,
     auth |-> [username |-> "", password |-> ""]]
NoOutcome == [ok |-> FALSE, cause |-> "not sent", status |-> 0, body |-> "none"]
NoResult == [tag |-> "none", kind |-> "none", val |-> "none"]

DispatchIdle ==
    /\ crate = "twilly"
    /\ entry = "send_request"
    /\ req = NoRequest
    /\ wire = NoWire
    /\ sends = <<>>
    /\ outcome = NoOutcome
    /\ result = NoResult
    /\ dpc = "idle"

ListIdle ==
    /\ family = "none"
    /\ largs = None
    /\ server = <<>>
    /\ lpc = "idle"
    /\ page = None
    /\ results = <<>>
    /\ calls = <<>>
    /\ log = <<>>
    /\ ret = NoResult

BuildIdle ==
    /\ bpc = "idle"
    /\ bArgs = <<>>
    /\ built = NoResult

\* sync/services.rs: pub struct CreateOrUpdateParams
CreateOrUpdateParams(friendly_name, acl_enabled, window) ==
    [friendly_name |-> friendly_name, webhook_url |-> None,
     reachability_webhooks_enabled |-> None, acl_enabled |-> acl_enabled,
     reachability_debouncing_enabled |-> None,
     reachability_debouncing_window |-> window,
     webhooks_from_rest_enabled |-> None]

NoOperation ==
    [op |-> "none", sid |-> "none",
     params |-> CreateOrUpdateParams(None, None, None)]

SyncIdle ==
    /\ spc = "idle"
    /\ sop = NoOperation
    /\ swire = <<>>
    /\ sret = NoResult

NoPrevious ==
    [some |-> FALSE, req |-> NoRequest, answered |-> "none",
     result |-> NoResult]

RepeatIdle ==
    /\ resource = "present"
    /\ prev = NoPrevious

NoChoice == [action |-> "none", sid |-> ""]
NothingPrinted == [stream |-> "none", text |-> <<>>]

ShellIdle ==
    /\ shpc = "menu"
    /\ schoice = NoChoice
    /\ sres = NoResult
    /\ printed = NothingPrinted

RenameIdle ==
    /\ rpc = "menu"
    /\ rremote = [original |-> [exists |-> FALSE, items |-> {}],
                  temp |-> [exists |-> FALSE, items |-> {}],
                  renamed |-> [exists |-> FALSE, items |-> {}]]
    /\ rmem = [some |-> FALSE, v |-> <<>>]
    /\ rlog = <<>>

BulkIdle ==
    /\ dapc = "menu"
    /\ davariant = "none"
    /\ daremote = [all |-> 0, left |-> {}]
    /\ dalist = [some |-> FALSE, v |-> <<>>]
    /\ dalog = <<>>

MenuIdle ==
    /\ mpc = "idle"
    /\ mcall = [variant |-> "none", options |-> <<>>]
    /\ mpick = [cancelled |-> FALSE, entry |-> 0]
    /\ mret = [tag |-> "none", choice |-> ""]

FlowIdle ==
    /\ fpc = "idle"
    /\ fflow = "none"
    /\ fmem = <<>>
    /\ fsel = [some |-> FALSE, v |-> 0]
    /\ flast = [action |-> "none", entry |-> 0, sid |-> 0, answer |-> "none", issued |-> FALSE, outcome |-> "none"]
    /\ fsent = <<>>

AcctIdle ==
    /\ apc = "idle"
    /\ acall = [variant |-> "none", action |-> "none", answer |-> "none", issued |-> FALSE, outcome |-> "none"]
    /\ astatus = "none"
    /\ asent = <<>>
    /\ aremote = "none"

StartIdle ==
    /\ stpc = "idle"
    /\ stvariant = "none"
    /\ stloaded = FALSE
    /\ stconfig = ""
    /\ stdisk = ""
    /\ stlog = <<>>

\* everything but the Sync Map rename at rest
ExceptRenameIdle ==
    /\ DispatchIdle
    /\ ListIdle
    /\ BuildIdle
    /\ SyncIdle
    /\ RepeatIdle
    /\ ShellIdle
    /\ BulkIdle
    /\ MenuIdle
    /\ FlowIdle
    /\ AcctIdle
    /\ StartIdle

\* everything but the bulk delete of conversations at rest
ExceptBulkIdle ==
    /\ DispatchIdle
    /\ ListIdle
    /\ BuildIdle
    /\ SyncIdle
    /\ RepeatIdle
    /\ ShellIdle
    /\ RenameIdle
    /\ MenuIdle
    /\ FlowIdle
    /\ AcctIdle
    /\ StartIdle

\* everything but the action menu at rest
ExceptMenuIdle ==
    /\ DispatchIdle
    /\ ListIdle
    /\ BuildIdle
    /\ SyncIdle
    /\ RepeatIdle
    /\ ShellIdle
    /\ RenameIdle
    /\ BulkIdle
    /\ FlowIdle
    /\ AcctIdle
    /\ StartIdle

\* everything but the resource list flow at rest
ExceptFlowIdle ==
    /\ DispatchIdle
    /\ ListIdle
    /\ BuildIdle
    /\ SyncIdle
    /\ RepeatIdle
    /\ ShellIdle
    /\ RenameIdle
    /\ BulkIdle
    /\ MenuIdle
    /\ AcctIdle
    /\ StartIdle

\* everything but the account status actions at rest
ExceptAcctIdle ==
    /\ DispatchIdle
    /\ ListIdle
    /\ BuildIdle
    /\ SyncIdle
    /\ RepeatIdle
    /\ ShellIdle
    /\ RenameIdle
    /\ BulkIdle
    /\ MenuIdle
    /\ FlowIdle
    /\ StartIdle

\* everything but the shell startup at rest
ExceptStartIdle ==
    /\ DispatchIdle
    /\ ListIdle
    /\ BuildIdle
    /\ SyncIdle
    /\ RepeatIdle
    /\ ShellIdle
    /\ RenameIdle
    /\ BulkIdle
    /\ MenuIdle
    /\ FlowIdle
    /\ AcctIdle

CliIdle ==
    /\ RenameIdle
    /\ BulkIdle
    /\ MenuIdle
    /\ FlowIdle
    /\ AcctIdle
    /\ StartIdle

Init ==
    /\ client = [config |-> TestConfig]
    /\ DispatchIdle
    /\ ListIdle
    /\ BuildIdle
    /\ SyncIdle
    /\ RepeatIdle
    /\ ShellIdle
    /\ CliIdle

(***************************************************************************)
(* One dispatch call: the request is built and sent, the send fails or a   *)
(* response arrives, and the call returns.                                 *)
(***************************************************************************)
EntryPoints(c) ==
    IF c = "twilly" THEN {"send_request", "send_request_and_ignore_response"}
    ELSE {"send_request"}

\* twilio_rust passes a HashMap<String, &str>: present entries only, in the
\* map's iteration order, which is either order
HashMapParams ==
    {None}
    \cup {Some(ListOrUpdateParams(n, s)) : n \in FriendlyNames, s \in Statuses}
    \cup {Some(<<[k |-> "Status", v |-> s], [k |-> "FriendlyName", v |-> n]>>) :
             n \in FriendlyNames \ {None}, s \in Statuses \ {None}}

RequestsOf(c) ==
    CASE c = "src" -> {SrcRequest}
      [] c = "twilio_rust" ->
            [method : Methods, url : {ConversationsUrl, AccountsUrl},
             params : HashMapParams]
      [] c = "twilly" -> Requests

Call ==
    /\ dpc = "idle"
    /\ \E c \in {"src", "twilio_rust", "twilly"} :
         \E e \in EntryPoints(c) :
           \E r \in RequestsOf(c) :
              /\ crate' = c
              /\ entry' = e
              /\ req' = r
              /\ wire' = BuildRequest(c, client.config, r)
              /\ sends' = requests_sent(c, client.config, r)
    /\ outcome' = NoOutcome
    /\ result' = NoResult
    /\ dpc' = "in_flight"
    /\ UNCHANGED <<cliVars, client, listVars, buildVars, syncVars, repeatVars, shellVars>>

TransportFailure ==
    /\ dpc = "in_flight"
    /\ \E cause \in Causes :
         /\ outcome' = [SendFailed(cause) EXCEPT !.body = "none"]
         /\ result' = Dispatch(crate, entry, TargetType(crate), SendFailed(cause))
    /\ dpc' = "done"
    /\ UNCHANGED <<cliVars, client, crate, entry, req, wire, sends, listVars, buildVars, syncVars, repeatVars, shellVars>>

ReceiveResponse ==
    /\ dpc = "in_flight"
    /\ \E status \in HttpStatuses :
         \E body \in Bodies :
            /\ outcome' = Response(status, body)
            /\ result' = Dispatch(crate, entry, TargetType(crate),
                                  Response(status, BodyDoc(body)))
    /\ dpc' = "done"
    /\ UNCHANGED <<cliVars, client, crate, entry, req, wire, sends, listVars, buildVars, syncVars, repeatVars, shellVars>>

\* the caller has the result; a panic has ended the process instead
Return ==
    /\ dpc = "done"
    /\ result.tag # "panic"
    /\ crate' = "twilly"
    /\ entry' = "send_request"
    /\ req' = NoRequest
    /\ wire' = NoWire
    /\ sends' = <<>>
    /\ outcome' = NoOutcome
    /\ result' = NoResult
    /\ dpc' = "idle"
    /\ UNCHANGED <<cliVars, client, listVars, buildVars, syncVars, repeatVars, shellVars>>

DispatchNext == Call \/ TransportFailure \/ ReceiveResponse \/ Return

DispatchSpec == Init /\ [][DispatchNext]_vars


(***************************************************************************)
(* What the remote sent, stated independently of the deserializer: which   *)
(* bodies are a well-formed Account or Api Error Body, and their fields.   *)
(***************************************************************************)
ExpectedAccount(c) ==
    IF c = "src"
    THEN [status |-> "active", date_updated |-> "d2", auth_token |-> "tok",
          friendly_name |-> "main", owner_account_sid |-> "AC1",
          uri |-> "/Accounts/AC1", sid |-> "AC1", date_created |-> "d1",
          type |-> "Full"]
    ELSE [status |-> "active", date_updated |-> "d2",
          friendly_name |-> "main", owner_account_sid |-> "AC1",
          uri |-> "/Accounts/AC1", sid |-> "AC1", date_created |-> "d1",
          type |-> "Full"]

ApiErrorBodies == {"error_404", "error_429", "error_extra_field"}

ExpectedApiError(b) ==
    CASE b = "error_404" ->
            [code |-> 20404, message |-> "m",
             more_info |-> "https://www.twilio.com/docs/errors", status |-> 404]
      [] b = "error_429" ->
            [code |-> 20429, message |-> "m",
             more_info |-> "https://www.twilio.com/docs/errors", status |-> 429]
      [] b = "error_extra_field" ->
            [code |-> 20003, message |-> "m", more_info |-> "u", status |-> 401]

InSuccessRange(status) == status \in 200..299

\* the remote's reading of a query string or form body: split at '&', each
\* pair at its first '=', percent-decoded
DecodeChar(c) ==
    CASE c = "+" -> " "
      [] c = "%26" -> "&"
      [] c = "%3D" -> "="
      [] OTHER -> c

RECURSIVE SplitOn(_, _)
SplitOn(s, sep) ==
    IF s = <<>> THEN << <<>> >>
    ELSE LET rest == SplitOn(Tail(s), sep)
         IN IF Head(s) = sep THEN << <<>> >> \o rest
            ELSE << <<Head(s)>> \o Head(rest) >> \o Tail(rest)

RECURSIVE UpTo(_, _)
UpTo(s, sep) ==
    IF s = <<>> \/ Head(s) = sep THEN <<>>
    ELSE <<Head(s)>> \o UpTo(Tail(s), sep)

After(s, sep) ==
    LET n == Len(UpTo(s, sep))
    IN IF n >= Len(s) THEN <<>> ELSE SubSeq(s, n + 2, Len(s))

Decoded(s) == [i \in DOMAIN s |-> DecodeChar(s[i])]

ParsePairs(q) ==
    IF q = <<>> THEN <<>>
    ELSE LET parts == SplitOn(q, "&")
         IN [i \in DOMAIN parts |->
               <<Decoded(UpTo(parts[i], "=")), Decoded(After(parts[i], "="))>>]

\* the key/value pairs of a parameter mapping: its fields that have a value
RECURSIVE PresentPairs(_)
PresentPairs(fields) ==
    IF fields = <<>> THEN <<>>
    ELSE (IF Head(fields).v.some
          THEN << <<(<<Head(fields).k>>), Head(fields).v.v>> >>
          ELSE <<>>) \o PresentPairs(Tail(fields))

ParamPairs(params) == IF params.some THEN PresentPairs(params.v) ELSE <<>>

Sent == dpc \in {"in_flight", "done"}

\* C1 (the claim as stated): for every response with a status in [200,300)
\* send_request returns success with the deserialized value when the body is
\* a well-formed value of the target type, and a Parse error otherwise.
\* twilio_rust's send_request takes the success arm for status 200 only.
C1_SuccessStatusToValueOrParse ==
    (dpc = "done" /\ entry = "send_request" /\ outcome.ok
        /\ InSuccessRange(outcome.status))
    => IF outcome.body = "account"
       THEN result.tag = "Ok" /\ result.val = ExpectedAccount(crate)
       ELSE result.tag = "Err" /\ result.kind = "ParsingError"

\* C2 (the claim as stated): for every response with a status outside
\* [200,300) send_request never returns success; a well-formed Api Error Body
\* gives an Api error with the body's code, message, more_info and status,
\* any other body a Parse error.  The first iteration (src/src) matches on
\* the constant StatusCode::OK and so never takes the error arm.
C2_FailureStatusToApiOrParse ==
    (dpc = "done" /\ entry = "send_request" /\ outcome.ok
        /\ ~InSuccessRange(outcome.status))
    => /\ result.tag # "Ok"
       /\ IF outcome.body \in ApiErrorBodies
          THEN /\ result.tag = "Err"
               /\ result.kind = "TwilioError"
               /\ result.val = ExpectedApiError(outcome.body)
          ELSE result.tag = "Err" /\ result.kind = "ParsingError"

\* C3 (the claim as stated): a dispatch returns a Network error exactly when
\* the send failed at transport level; a received response gives success,
\* Api or Parse; a transport failure is never Parse and never aborts the
\* call.  The first iteration (src/src) unwraps the send result.
C3_NetworkIffTransportFailure ==
    dpc = "done"
    => /\ result.tag \in {"Ok", "Err"}
       /\ (result.tag = "Err" /\ result.kind = "NetworkError") <=> ~outcome.ok
       /\ outcome.ok => (result.tag = "Ok"
                          \/ result.kind \in {"TwilioError", "ParsingError"})

\* C8 (the claim as stated): for a GET request with parameters the query
\* string holds exactly the parameters' key/value pairs and the body is
\* empty; for every other method the parameters are the form body and the
\* URL's query string is unaffected.  A GET to a URL that already has a query
\* string (Accounts.json?PageSize=5) sends that pair as well.
C8_QueryIsExactlyTheParams ==
    (Sent /\ ParamPairs(req.params) # <<>>)
    => IF req.method = "GET"
       THEN /\ ParsePairs(wire.query) = ParamPairs(req.params)
            /\ wire.body = NoBody
       ELSE /\ ParsePairs(wire.body.form) = ParamPairs(req.params)
            /\ wire.query = req.url.query

\* C8 (amended): placement is decided by the method alone.  For a GET the
\* parameters are appended to the URL's query string: the query string holds
\* the pairs the URL already had followed by exactly the parameters' pairs,
\* and there is no body.  For every other method the body is the
\* form-urlencoded parameters and the URL's query string is sent unchanged.
C8_ParamsPlacedByMethod ==
    Sent
    => IF req.method = "GET"
       THEN /\ ParsePairs(wire.query)
                  = ParsePairs(req.url.query) \o ParamPairs(req.params)
            /\ wire.body = NoBody
       ELSE /\ wire.body.content_type = "application/x-www-form-urlencoded"
            /\ ParsePairs(wire.body.form) = ParamPairs(req.params)
            /\ wire.query = req.url.query

\* a GET whose URL has a query string and whose parameters need encoding is
\* on the wire, and so is a POST with parameters
C8_Witness_GetWithParams ==
    /\ Sent
    /\ req.method = "GET"
    /\ req.url = AccountsUrl
    /\ ParamPairs(req.params)
         = << <<(<<"FriendlyName">>), <<"a", "&", "b", "=">> >>,
              <<(<<"Status">>), <<"closed">> >> >>
    /\ Len(ParsePairs(wire.query)) = 3


\* what `.send()` gave in the call in progress, with the body's document
OutcomeSent ==
    IF outcome.ok THEN Response(outcome.status, BodyDoc(outcome.body))
    ELSE SendFailed(outcome.cause)

IgnoringResponse ==
    dpc = "done" /\ crate = "twilly"
    /\ entry = "send_request_and_ignore_response"

\* C12: send_request_and_ignore_response returns success, with no value,
\* for every response whose status is in [200,300), whatever the body is
\* (an Account, an error body, not JSON at all).
C12_SuccessWhateverTheBody ==
    (IgnoringResponse /\ outcome.ok /\ InSuccessRange(outcome.status))
    => result.tag = "Ok" /\ result.val = Unit

C12_Witness_Created_NotJson ==
    /\ IgnoringResponse
    /\ outcome.ok
    /\ outcome.status = 201
    /\ outcome.body = "not_json"
    /\ result.tag = "Ok"

SameClassification(a, b) ==
    /\ a.tag = "Err"
    /\ b.tag = "Err"
    /\ a.kind = b.kind
    /\ a.val = b.val

\* C13: for a transport failure or a response whose status is outside
\* [200,300), what send_request_and_ignore_response returns and what
\* send_request returns for the same outcome are the same error: the same
\* kind, and the same Api error body when the kind is Api.
C13_SameFailureClassification ==
    (dpc = "done" /\ crate = "twilly"
        /\ (outcome.ok => ~InSuccessRange(outcome.status)))
    => /\ SameClassification(send_request_and_ignore_response(OutcomeSent),
                             send_request(TargetType(crate), OutcomeSent))
       /\ SameClassification(result, send_request(TargetType(crate), OutcomeSent))

C13_Witness_RateLimitedIgnoring ==
    /\ IgnoringResponse
    /\ outcome.ok
    /\ outcome.status = 429
    /\ outcome.body = "error_429"
    /\ result.kind = "TwilioError"
    /\ result.val = ExpectedApiError("error_429")


\* C14: a dispatch call sends exactly one HTTP request, whatever comes of
\* it: a transport failure, an error response or an unreadable body is
\* followed by no second request, and the call never returns a value that
\* is not read from a response received (a failed send gives no success,
\* and a success of send_request carries the Account of the body).
C14_OneRequestPerCall ==
    /\ Sent => (sends = <<wire>>)
    /\ dpc = "done" =>
          /\ ~outcome.ok => result.tag # "Ok"
          /\ (result.tag = "Ok" /\ entry = "send_request")
                => (outcome.body = "account"
                    /\ result.val = ExpectedAccount(crate))

C14_Witness_FailedOnce ==
    /\ dpc = "done"
    /\ crate = "twilly"
    /\ ~outcome.ok
    /\ result.kind = "NetworkError"
    /\ Len(sends) = 1


(***************************************************************************)
(* Eager pagination: the list() operations of twilly.                      *)
(***************************************************************************)
MaxPages == 3
MaxItems == 2

Families == {"Conversations", "Accounts", "SyncServices", "ParticipantConversations"}

\* conversation.rs: enum State, #[serde(rename_all = "lowercase")]
State == TEnum({"active", "inactive", "closed"})

\* conversation.rs: pub struct Timers
Timers ==
    TStruct([date_inactive |-> TOption(TString), date_closed |-> TOption(TString)])

\* conversation.rs: pub struct Links
ConversationLinks ==
    TStruct([participants |-> TString, messages |-> TString, webhooks |-> TString])

\* conversation.rs: pub struct Conversation
Conversation ==
    TStruct([sid |-> TString, account_sid |-> TString,
             chat_service_sid |-> TString, messaging_service_sid |-> TString,
             unique_name |-> TOption(TString), friendly_name |-> TOption(TString),
             date_created |-> TString, date_updated |-> TString,
             state |-> State, url |-> TString, attributes |-> TString,
             timers |-> Timers, links |-> ConversationLinks])

\* lib.rs: pub struct PageMeta
PageMeta ==
    TStruct([page |-> TU16, page_size |-> TU16, first_page_url |-> TString,
             previous_page_url |-> TOption(TString),
             next_page_url |-> TOption(TString), key |-> TString])

\* conversation.rs: pub struct ConversationPage
ConversationPage ==
    TStruct([conversations |-> TVec(Conversation), meta |-> PageMeta])

\* account.rs: pub struct AccountPage
AccountPage ==
    TStruct([first_page_uri |-> TString, end |-> TU16,
             previous_page_uri |-> TOption(TString),
             accounts |-> TVec(Account), uri |-> TString, page_size |-> TU16,
             start |-> TU16, next_page_uri |-> TOption(TString), page |-> TU16])

\* sync/services.rs: pub struct Links
ServiceLinks ==
    TStruct([documents |-> TString, lists |-> TString, maps |-> TString,
             streams |-> TString])

\* sync/services.rs: pub struct SyncService
SyncService ==
    TStruct([sid |-> TString, unique_name |-> TOption(TString),
             account_sid |-> TString, friendly_name |-> TOption(TString),
             date_created |-> TString, date_updated |-> TString,
             url |-> TString, webhook_url |-> TOption(TString),
             webhooks_from_rest_enabled |-> TBool, acl_enabled |-> TBool,
             reachability_debouncing_enabled |-> TBool,
             reachability_debouncing_window |-> TU16, links |-> ServiceLinks])

\* sync/services.rs: pub struct SyncServicePage
SyncServicePage ==
    TStruct([services |-> TVec(SyncService), meta |-> PageMeta])

\* participant_conversation.rs: pub struct ParticipantMessagingBinding
ParticipantMessagingBinding ==
    TStruct([address |-> TString, proxy_address |-> TString, type |-> TString,
             level |-> TOption(TString), name |-> TOption(TString),
             projected_address |-> TOption(TString)])

\* participant_conversation.rs: pub struct Links
ParticipantLinks ==
    TStruct([participant |-> TString, conversation |-> TString])

\* participant_conversation.rs: pub struct ParticipantConversation
ParticipantConversation ==
    TStruct([account_sid |-> TString, chat_service_sid |-> TString,
             participant_sid |-> TString,
             participant_user_sid |-> TOption(TString),
             participant_identity |-> TOption(TString),
             participant_messaging_binding |-> TOption(ParticipantMessagingBinding),
             conversation_sid |-> TString,
             conversation_unique_name |-> TOption(TString),
             conversation_friendly_name |-> TOption(TString),
             conversation_attributes |-> TString,
             conversation_date_created |-> TString,
             conversation_date_updated |-> TString,
             conversation_created_by |-> TString,
             conversation_state |-> State, conversation_timers |-> Timers,
             links |-> ParticipantLinks])

\* participant_conversation.rs: pub struct ParticipantConversationPage
ParticipantConversationPage ==
    TStruct([conversations |-> TVec(ParticipantConversation), meta |-> PageMeta])

\* the page type each list() asks the dispatch for
PageType(f) ==
    CASE f = "Conversations" -> ConversationPage
      [] f = "Accounts" -> AccountPage
      [] f = "SyncServices" -> SyncServicePage
      [] f = "ParticipantConversations" -> ParticipantConversationPage

\* the URL of each list()'s first request
ListUrl(f) ==
    CASE f = "Conversations" -> ConversationsUrl
      [] f = "Accounts" -> AccountsUrl
      [] f = "SyncServices" ->
            Url(<<"https://sync.twilio.com/v1/Services">>, <<"PageSize", "=", "20">>)
      [] f = "ParticipantConversations" ->
            Url(<<"https://conversations.twilio.com/v1/ParticipantConversations">>,
                <<>>)

\* conversation.rs ListParams, serialized in PascalCase
ListParams(start_date, end_date, state) ==
    <<[k |-> "StartDate", v |-> start_date], [k |-> "EndDate", v |-> end_date],
      [k |-> "State", v |-> state]>>

\* participant_conversation.rs ListParams
ParticipantListParams(identity, address) ==
    <<[k |-> "Identity", v |-> identity], [k |-> "Address", v |-> address]>>

\* the params argument of the first request, for the filters the caller may
\* pass: Some(&params), or None for Services::list
ListArgs(f) ==
    CASE f = "Conversations" ->
            {Some(ListParams(None, None, None)),
             Some(ListParams(Some(<<"2024-01-01">>), None, Some(<<"closed">>)))}
      [] f = "Accounts" ->
            {Some(ListOrUpdateParams(None, None)),
             Some(ListOrUpdateParams(Some(<<"a", " ", "b">>), Some(<<"closed">>)))}
      [] f = "SyncServices" -> {None}
      [] f = "ParticipantConversations" ->
            {Some(ParticipantListParams(None, None)),
             Some(ParticipantListParams(Some(<<"alice">>), None))}

\* the items of a page, moved into the accumulator
page_items(f, pg) ==
    CASE f = "Conversations" -> pg.conversations
      [] f = "Accounts" -> pg.accounts
      [] f = "SyncServices" -> pg.services
      [] f = "ParticipantConversations" -> pg.conversations

\* the page once its items were moved out
page_moved(f, pg) ==
    CASE f = "Conversations" -> [pg EXCEPT !.conversations = <<>>]
      [] f = "Accounts" -> [pg EXCEPT !.accounts = <<>>]
      [] f = "SyncServices" -> [pg EXCEPT !.services = <<>>]
      [] f = "ParticipantConversations" -> [pg EXCEPT !.conversations = <<>>]

\* (mutant of next_page: the Accounts host prefix applied to every family)
next_page_mut_prefix_always(f, pg) ==
    LET ref == IF f = "Accounts" THEN pg.next_page_uri ELSE pg.meta.next_page_url
    IN IF ref.some
       THEN Some(Url(<<"https://api.twilio.com">> \o ref.v.base, ref.v.query))
       ELSE None

\* the URL of the follow-up request, if the loop condition holds:
\* meta.next_page_url as returned, and for Accounts
\* format!("https://api.twilio.com{}", next_page_uri)
next_page(f, pg) ==
    IF f = "Accounts"
    THEN IF pg.next_page_uri.some
         THEN Some(Url(<<"https://api.twilio.com">> \o pg.next_page_uri.v.base,
                       pg.next_page_uri.v.query))
         ELSE None
    ELSE pg.meta.next_page_url

\* (mutant of append_items: the new page's items put in front)
append_items_mut_prepend(acc, items) == items \o acc

\* results.append(&mut page.items)
append_items(acc, items) == acc \o items

ListReturns(r) ==
    [lpc |-> "done", ret |-> r, page |-> None, results |-> <<>>, next |-> None]

\* (mutant of list_after: a failed page ends the loop with what was gathered)
list_after_mut_swallow(f, acc, r) ==
    IF r.tag # "Ok" THEN ListReturns(Ok(acc))
    ELSE LET all == append_items(acc, page_items(f, r.val))
             next == next_page(f, r.val)
         IN IF next.some
            THEN [lpc |-> "next", ret |-> NoResult,
                  page |-> Some(page_moved(f, r.val)), results |-> all,
                  next |-> next]
            ELSE ListReturns(Ok(all))

\* (mutant of list_after: the next page is requested before the items of
\* the page received are appended)
list_after_mut_request_before_fold(f, acc, r) ==
    IF r.tag # "Ok" THEN ListReturns(r)
    ELSE LET all == append_items(acc, page_items(f, r.val))
             next == next_page(f, r.val)
         IN IF next.some
            THEN [lpc |-> "next", ret |-> NoResult,
                  page |-> Some(r.val), results |-> acc, next |-> next]
            ELSE ListReturns(Ok(all))

\* (mutant of list_after: the loop never runs)
list_after_mut_first_page_only(f, acc, r) ==
    IF r.tag # "Ok" THEN ListReturns(r)
    ELSE ListReturns(Ok(append_items(acc, page_items(f, r.val))))

\* list() from the return of a dispatch to the next suspension point or to
\* its return: `?` on the result, the items appended to the accumulator, the
\* loop condition, and the follow-up request's URL
list_after(f, acc, r) ==
    IF r.tag # "Ok" THEN ListReturns(r)
    ELSE LET all == append_items(acc, page_items(f, r.val))
             next == next_page(f, r.val)
         IN IF next.some
            THEN [lpc |-> "next", ret |-> NoResult,
                  page |-> Some(page_moved(f, r.val)), results |-> all,
                  next |-> next]
            ELSE ListReturns(Ok(all))


(***************************************************************************)
(* The remote collection.  A server is the sizes of its pages, in chain    *)
(* order; item n of the collection is the n-th item counted along the      *)
(* chain, and carries n in its identifier.                                 *)
(***************************************************************************)
\* a page is empty, holds one item, or is full
PageSizes == {0, 1, MaxItems}

Servers == UNION {[1..n -> PageSizes] : n \in 1..MaxPages}

RECURSIVE ItemsBefore(_, _)
ItemsBefore(srv, k) ==
    IF k <= 1 THEN 0 ELSE ItemsBefore(srv, k - 1) + srv[k - 1]

\* the numbers of the items of page k, in the server's order
PageItemNos(srv, k) == [i \in 1..srv[k] |-> ItemsBefore(srv, k) + i]

ItemSid(f, n) ==
    CASE f = "Conversations" -> "CH" \o ToString(n)
      [] f = "Accounts" -> "AC" \o ToString(n)
      [] f = "SyncServices" -> "IS" \o ToString(n)
      [] f = "ParticipantConversations" -> "CH" \o ToString(n)

TimersDoc == JObj([date_inactive |-> JStr("t1"), date_closed |-> JNull])

ItemDoc(f, n) ==
    CASE f = "Conversations" ->
            JObj([sid |-> JStr(ItemSid(f, n)), account_sid |-> JStr("AC1"),
                  chat_service_sid |-> JStr("IS1"),
                  messaging_service_sid |-> JStr("MG1"),
                  unique_name |-> JNull, friendly_name |-> JStr("chat"),
                  date_created |-> JStr("d1"), date_updated |-> JStr("d2"),
                  state |-> JStr("active"), url |-> JStr("u"),
                  attributes |-> JStr("{}"), timers |-> TimersDoc,
                  links |-> JObj([participants |-> JStr("p"),
                                  messages |-> JStr("m"),
                                  webhooks |-> JStr("w")]),
                  bindings |-> JNull])
      [] f = "Accounts" ->
            JObj([status |-> JStr("active"), date_updated |-> JStr("d2"),
                  auth_token |-> JStr("tok"), friendly_name |-> JStr("main"),
                  owner_account_sid |-> JStr("AC1"),
                  uri |-> JStr("/Accounts"), sid |-> JStr(ItemSid(f, n)),
                  date_created |-> JStr("d1"), type |-> JStr("Full")])
      [] f = "SyncServices" ->
            JObj([sid |-> JStr(ItemSid(f, n)), unique_name |-> JNull,
                  account_sid |-> JStr("AC1"), friendly_name |-> JStr("sync"),
                  date_created |-> JStr("d1"), date_updated |-> JStr("d2"),
                  url |-> JStr("u"), webhook_url |-> JNull,
                  webhooks_from_rest_enabled |-> JBool(FALSE),
                  acl_enabled |-> JBool(TRUE),
                  reachability_debouncing_enabled |-> JBool(FALSE),
                  reachability_debouncing_window |-> JNum(5000),
                  links |-> JObj([documents |-> JStr("d"), lists |-> JStr("l"),
                                  maps |-> JStr("m"), streams |-> JStr("s")])])
      [] f = "ParticipantConversations" ->
            JObj([account_sid |-> JStr("AC1"), chat_service_sid |-> JStr("IS1"),
                  participant_sid |-> JStr("MB1"),
                  participant_user_sid |-> JNull,
                  participant_identity |-> JStr("alice"),
                  participant_messaging_binding |-> JNull,
                  conversation_sid |-> JStr(ItemSid(f, n)),
                  conversation_unique_name |-> JNull,
                  conversation_friendly_name |-> JNull,
                  conversation_attributes |-> JStr("{}"),
                  conversation_date_created |-> JStr("d1"),
                  conversation_date_updated |-> JStr("d2"),
                  conversation_created_by |-> JStr("system"),
                  conversation_state |-> JStr("active"),
                  conversation_timers |-> TimersDoc,
                  links |-> JObj([participant |-> JStr("p"),
                                  conversation |-> JStr("c")])])

\* the string the remote returns as the reference to page k of the chain: an
\* absolute URL, and for Accounts a URI relative to the API's host
PageRef(f, k) ==
    IF f = "Accounts"
    THEN Url(<<"/2010-04-01/Accounts.json">>,
             <<"PageSize", "=", "5", "&", "Page", "=", ToString(k - 1),
               "&", "PageToken", "=", "PA" \o ToString(k)>>)
    ELSE Url(ListUrl(f).base,
             <<"PageSize", "=", "50", "&", "Page", "=", ToString(k - 1),
               "&", "PageToken", "=", "PT" \o ToString(k)>>)

OptRefDoc(present, ref) == IF present THEN JStr(ref) ELSE JNull

ItemsKey(f) ==
    CASE f = "Conversations" -> "conversations"
      [] f = "Accounts" -> "accounts"
      [] f = "SyncServices" -> "services"
      [] f = "ParticipantConversations" -> "conversations"

MetaDoc(f, srv, k) ==
    JObj([page |-> JNum(k - 1), page_size |-> JNum(50),
          first_page_url |-> JStr(PageRef(f, 1)),
          previous_page_url |-> OptRefDoc(k > 1, PageRef(f, k - 1)),
          next_page_url |-> OptRefDoc(k < Len(srv), PageRef(f, k + 1)),
          url |-> JStr(PageRef(f, k)), key |-> JStr(ItemsKey(f))])

ItemDocs(f, srv, k) ==
    JArr([i \in 1..srv[k] |-> ItemDoc(f, PageItemNos(srv, k)[i])])

\* the body of page k of the chain
PageDoc(f, srv, k) ==
    CASE f = "Conversations" ->
            JObj([conversations |-> ItemDocs(f, srv, k),
                  meta |-> MetaDoc(f, srv, k)])
      [] f = "Accounts" ->
            JObj([first_page_uri |-> JStr(PageRef(f, 1)),
                  end |-> JNum(ItemsBefore(srv, k) + srv[k]),
                  previous_page_uri |-> OptRefDoc(k > 1, PageRef(f, k - 1)),
                  accounts |-> ItemDocs(f, srv, k),
                  uri |-> JStr(PageRef(f, k)), page_size |-> JNum(5),
                  start |-> JNum(ItemsBefore(srv, k)),
                  next_page_uri |-> OptRefDoc(k < Len(srv), PageRef(f, k + 1)),
                  page |-> JNum(k - 1)])
      [] f = "SyncServices" ->
            JObj([services |-> ItemDocs(f, srv, k),
                  meta |-> MetaDoc(f, srv, k)])
      [] f = "ParticipantConversations" ->
            JObj([conversations |-> ItemDocs(f, srv, k),
                  meta |-> MetaDoc(f, srv, k)])

\* the value of the query's "Page" pair, if it has one
RECURSIVE PageParam(_)
PageParam(pairs) ==
    IF pairs = <<>> THEN None
    ELSE IF Head(pairs)[1] = <<"Page">> THEN Some(Head(pairs)[2])
    ELSE PageParam(Tail(pairs))

\* which page of the chain a request addresses (0: none): the first without
\* a "Page" pair, page k for Page=k-1
AddressedPage(f, srv, w) ==
    LET p == PageParam(ParsePairs(w.query))
    IN IF w.method # "GET" \/ w.base # ListUrl(f).base THEN 0
       ELSE IF ~p.some THEN 1
       ELSE IF \E k \in 1..Len(srv) : p.v = <<ToString(k - 1)>>
            THEN CHOOSE k \in 1..Len(srv) : p.v = <<ToString(k - 1)>>
            ELSE 0

\* a URL reqwest can send: it starts with a scheme and host
IsAbsolute(base) ==
    base # <<>> /\ \E f \in Families : Head(base) = Head(ListUrl(f).base)

\* what `.send()` gives for each way the remote and the network can behave
Remotes == {"honest", "timeout", "rate_limited", "bad_gateway", "truncated",
            "page_without_links"}
Faults == Remotes \ {"honest"}

SendOutcome(remote, f, srv, w) ==
    CASE ~IsAbsolute(w.base) -> SendFailed("builder error")
      [] IsAbsolute(w.base) /\ remote = "honest" ->
            IF AddressedPage(f, srv, w) = 0
            THEN Response(404, ErrorDoc(20404, 404))
            ELSE Response(200, PageDoc(f, srv, AddressedPage(f, srv, w)))
      [] IsAbsolute(w.base) /\ remote = "timeout" -> SendFailed("timeout")
      [] IsAbsolute(w.base) /\ remote = "rate_limited" ->
            Response(429, ErrorDoc(20429, 429))
      [] IsAbsolute(w.base) /\ remote = "bad_gateway" -> Response(502, NotJson)
      [] IsAbsolute(w.base) /\ remote = "truncated" -> Response(200, NotJson)
      [] IsAbsolute(w.base) /\ remote = "page_without_links" ->
            Response(200, JObj([conversations |-> JArr(<<>>),
                                accounts |-> JArr(<<>>),
                                services |-> JArr(<<>>)]))

(***************************************************************************)
(* One list() call: the first request is issued, each page arrives or its  *)
(* dispatch fails, and the call returns.                                   *)
(***************************************************************************)
ListInit ==
    /\ client = [config |-> TestConfig]
    /\ DispatchIdle
    /\ BuildIdle
    /\ SyncIdle
    /\ RepeatIdle
    /\ ShellIdle
    /\ CliIdle
    /\ family = "none"
    /\ largs = None
    /\ server \in Servers
    /\ lpc = "idle"
    /\ page = None
    /\ results = <<>>
    /\ calls = <<>>
    /\ log = <<>>
    /\ ret = NoResult

\* list() is called: the first request, with the caller's parameters
ListCall ==
    /\ lpc = "idle"
    /\ \E f \in Families :
         \E a \in ListArgs(f) :
            /\ family' = f
            /\ largs' = a
            /\ calls' = <<send_http_request(client.config, "GET", ListUrl(f), a)>>
    /\ lpc' = "first"
    /\ page' = None
    /\ results' = <<>>
    /\ log' = <<>>
    /\ ret' = NoResult
    /\ UNCHANGED <<cliVars, client, server, dispatchVars, buildVars, syncVars, repeatVars, shellVars>>

\* the dispatch of the request last issued returns, the remote and the
\* network having behaved as `remote`, and list() runs on to its next
\* request or to its return
PageStep(remote) ==
    LET w == calls[Len(calls)]
        r == send_request(PageType(family),
                          SendOutcome(remote, family, server, w))
        after == list_after(family, results, r)
    IN /\ log' = Append(log, [remote |-> remote, tag |-> r.tag,
                              served |-> IF r.tag = "Ok"
                                         THEN AddressedPage(family, server, w)
                                         ELSE 0])
       /\ lpc' = after.lpc
       /\ ret' = after.ret
       /\ page' = after.page
       /\ results' = after.results
       /\ calls' = IF after.next.some
                   THEN Append(calls, send_http_request(client.config, "GET",
                                                        after.next.v, None))
                   ELSE calls
       /\ UNCHANGED <<cliVars, client, family, largs, server, dispatchVars, buildVars, syncVars, repeatVars, shellVars>>

\* the send fails, or the answer is not the page asked for
PageFails ==
    /\ lpc \in {"first", "next"}
    /\ \E remote \in Faults : PageStep(remote)

\* the remote serves the request
PageArrives ==
    /\ lpc \in {"first", "next"}
    /\ PageStep("honest")

\* the caller has the list or the error
ListReturn ==
    /\ lpc = "done"
    /\ family' = "none"
    /\ largs' = None
    /\ lpc' = "idle"
    /\ page' = None
    /\ results' = <<>>
    /\ calls' = <<>>
    /\ log' = <<>>
    /\ ret' = NoResult
    /\ UNCHANGED <<cliVars, client, server, dispatchVars, buildVars, syncVars, repeatVars, shellVars>>

ListNext == ListCall \/ PageFails \/ PageArrives \/ ListReturn

ListSpec == ListInit /\ [][ListNext]_vars

\* a dispatch in progress returns (either way log grows)
DispatchReturns == PageFails \/ PageArrives

FairListSpec == ListSpec /\ WF_log(DispatchReturns)


(***************************************************************************)
(* What a list() run should give, stated from the server's chain alone.    *)
(***************************************************************************)
ItemId(f, item) ==
    IF f = "ParticipantConversations" THEN item.conversation_sid ELSE item.sid

Ids(f, items) == [i \in DOMAIN items |-> ItemId(f, items[i])]

TotalItems(srv) == ItemsBefore(srv, Len(srv) + 1)

\* the identifiers of the whole collection, page after page
ExpectedIds(f, srv) == [n \in 1..TotalItems(srv) |-> ItemSid(f, n)]

Uniform(srv) == \A k \in DOMAIN srv : srv[k] = srv[1]

\* the Typed Error each fault is
FaultError(remote) ==
    CASE remote = "timeout" -> Err("NetworkError", "timeout")
      [] remote = "rate_limited" ->
            Err("TwilioError", ExpectedApiError("error_429"))
      [] OTHER -> Err("ParsingError", "reqwest::Error")

\* the URL the follow-up for page i of the chain is sent to
FollowUpTarget(f, i) ==
    IF f = "Accounts"
    THEN Url(<<"https://api.twilio.com">> \o PageRef(f, i).base,
             PageRef(f, i).query)
    ELSE PageRef(f, i)

ListDone == lpc = "done"
ListOk == lpc = "done" /\ ret.tag = "Ok"

C5_AllOrNothing ==
    \A K \in DOMAIN log :
        log[K].remote \in Faults
        => /\ ListDone
           /\ K = Len(log)
           /\ ret = FaultError(log[K].remote)
           /\ Len(calls) = K

C5_Witness_ThirdPageFails ==
    /\ ListDone
    /\ Len(log) = 3
    /\ log[3].remote = "rate_limited"
    /\ server[1] = 2
    /\ ret.tag = "Err"

FirstCarriesParams ==
    calls # <<>>
    => /\ ParsePairs(calls[1].query)
             = ParsePairs(ListUrl(family).query) \o ParamPairs(largs)
       /\ calls[1].base = ListUrl(family).base

\* C6 (the claim as stated): a successful list over N pages issues N calls,
\* the first with the caller's parameters, and each follow-up is sent to
\* exactly the next-page URL the previous page returned, with nothing added.
\* Accounts::list sends its follow-ups to "https://api.twilio.com" followed
\* by the returned next_page_uri.
C6_FollowUpsToReturnedUrl ==
    /\ ListOk => Len(calls) = Len(server)
    /\ FirstCarriesParams
    /\ \A i \in 2..Len(calls) :
          /\ Url(calls[i].base, calls[i].query) = PageRef(family, i)
          /\ calls[i].body = NoBody

\* C6 (amended): a successful list over N pages issues N calls, the first
\* with the caller's parameters; each follow-up is sent, with no parameters
\* and no body, to the next-page reference the previous page returned, which
\* Accounts::list first prefixes with "https://api.twilio.com" (the Accounts
\* reference is a URI relative to that host) and the other lists use as is.
C6_FollowUpsToNextPage ==
    /\ ListOk => Len(calls) = Len(server)
    /\ FirstCarriesParams
    /\ \A i \in 2..Len(calls) :
          /\ Url(calls[i].base, calls[i].query) = FollowUpTarget(family, i)
          /\ calls[i].body = NoBody

C6_Witness_ThreeCallsWithFilters ==
    /\ ListOk
    /\ Len(calls) = 3
    /\ family = "Accounts"
    /\ ParamPairs(largs) # <<>>

\* whether the page the last dispatch returned has a next-page URL
LastPageHasNext == log[Len(log)].served < Len(server)

\* C7: after a page was received, list() has returned exactly when that page
\* has no next-page URL, and then no further request was issued (a first
\* page without one ends the run after 1 call); and every list() in progress
\* eventually returns.
C7_TerminatesWhenNextAbsent ==
    /\ []((log # <<>> /\ log[Len(log)].tag = "Ok")
            => /\ ListDone <=> ~LastPageHasNext
               /\ ListDone => (ret.tag = "Ok" /\ Len(calls) = Len(log))
               /\ (ListDone /\ Len(server) = 1) => Len(calls) = 1)
    /\ (lpc \in {"first", "next"}) ~> ListDone

C7_Witness_OnePageOneCall ==
    /\ ListOk
    /\ Len(server) = 1
    /\ server[1] = 2
    /\ Len(ret.val) = 2
    /\ Len(calls) = 1


(***************************************************************************)
(* Credential validation: TwilioConfig::build (twilly; twilio_rust's is    *)
(* the same text).  A Rust String is UTF-8: a credential is modelled by    *)
(* its leading ASCII characters `head`, followed by `wide` two-byte        *)
(* characters (such as U+00E9) and `fill` characters '1'.                  *)
(***************************************************************************)
MaxFill == 34
MaxWide == 1

AccountSidLen == 34
AuthTokenLen == 32

Str(head, wide, fill) == [head |-> head, wide |-> wide, fill |-> fill]

\* String::len: the length in bytes
len(s) == Len(s.head) + 2 * s.wide + s.fill

\* str::starts_with (no character after `head` is a letter)
starts_with(s, prefix) ==
    Len(s.head) >= Len(prefix) /\ SubSeq(s.head, 1, Len(prefix)) = prefix

\* TwilioConfig::build: the config, or the panic and its message
build(account_sid, auth_token) ==
    IF ~starts_with(account_sid, <<"A", "C">>)
    THEN Panicked(<<"Account SID must start with AC">>)
    ELSE IF len(account_sid) # AccountSidLen
    THEN Panicked(<<"Account SID should be 34 characters in length. Was ",
                    ToString(len(account_sid))>>)
    ELSE IF len(auth_token) # AuthTokenLen
    THEN Panicked(<<"Auth token should be 32 characters in length. Was ",
                    ToString(len(auth_token))>>)
    ELSE Ok([account_sid |-> account_sid, auth_token |-> auth_token])

Heads == {<<>>, <<"A">>, <<"A", "C">>, <<"a", "c">>, <<"C", "A">>, <<"T", "h">>}

AccountSids == {Str(h, w, n) : h \in Heads, w \in 0..MaxWide, n \in 0..MaxFill}
AuthTokens == {Str(<<>>, w, n) : w \in 0..MaxWide, n \in 0..MaxFill}

Build ==
    /\ bpc = "idle"
    /\ \E account_sid \in AccountSids :
         \E auth_token \in AuthTokens :
            /\ bArgs' = <<account_sid, auth_token>>
            /\ built' = build(account_sid, auth_token)
    /\ bpc' = "done"
    /\ UNCHANGED <<cliVars, client, dispatchVars, listVars, syncVars, repeatVars, shellVars>>

\* the caller has the config; a panic has ended the process instead
BuildReturn ==
    /\ bpc = "done"
    /\ built.tag # "panic"
    /\ bpc' = "idle"
    /\ bArgs' = <<>>
    /\ built' = NoResult
    /\ UNCHANGED <<cliVars, client, dispatchVars, listVars, syncVars, repeatVars, shellVars>>

BuildNext == Build \/ BuildReturn

BuildSpec == Init /\ [][BuildNext]_vars

\* the number of characters of a credential
Chars(s) == Len(s.head) + s.wide + s.fill

BeginsAC(s) == Len(s.head) >= 2 /\ s.head[1] = "A" /\ s.head[2] = "C"

WellShaped(account_sid, auth_token) ==
    /\ BeginsAC(account_sid)
    /\ Chars(account_sid) = 34
    /\ Chars(auth_token) = 32

\* C9 (the claim as stated): build fails whenever the account SID does not
\* start with "AC", or is not exactly 34 characters long, or the auth token
\* is not exactly 32 characters long, and succeeds otherwise.  build compares
\* String::len, the length in bytes: "AC", 30 characters '1' and one
\* two-byte character is 33 characters and is accepted.
C9_BuildFailsIffIllShaped ==
    bpc = "done"
    => /\ built.tag \in {"Ok", "panic"}
       /\ built.tag = "Ok" <=> WellShaped(bArgs[1], bArgs[2])

\* the message build should fail with, by the characters of its arguments
FirstViolation(account_sid, auth_token) ==
    IF ~BeginsAC(account_sid)
    THEN <<"Account SID must start with AC">>
    ELSE IF Chars(account_sid) # 34
    THEN <<"Account SID should be 34 characters in length. Was ",
           ToString(Chars(account_sid))>>
    ELSE <<"Auth token should be 32 characters in length. Was ",
           ToString(Chars(auth_token))>>

\* C10 (the claim as stated): a failing build names the first violated
\* constraint in the order prefix, account SID length, auth token length,
\* and a length message reports the actual length of the offending value.
\* The lengths build compares and reports are byte counts (see C9): a SID
\* of 33 characters in 34 bytes passes the SID check, and a wrong length is
\* reported in bytes.
C10_MessageNamesFirstViolation ==
    (bpc = "done" /\ built.tag = "panic")
    => built.val = FirstViolation(bArgs[1], bArgs[2])


\* C11 (the claim as stated): for every valid credential pair (an account
\* SID starting with "AC" of 34 characters, an auth token of 32 characters)
\* build returns a config whose account_sid and auth_token are the inputs,
\* unchanged.  A config that build returns does hold the inputs unchanged,
\* but build measures bytes (see C9): a valid pair that holds a two-byte
\* character is refused.
C11_ValidPairRoundTrips ==
    (bpc = "done" /\ WellShaped(bArgs[1], bArgs[2]))
    => /\ built.tag = "Ok"
       /\ built.val.account_sid = bArgs[1]
       /\ built.val.auth_token = bArgs[2]


(***************************************************************************)
(* The client in use: the shell (twilly_cli main, a single-threaded loop)  *)
(* builds one Client and runs one operation after the other on it, single  *)
(* dispatches and lists alike.                                             *)
(***************************************************************************)
OtherConfig ==
    [account_sid |-> "AC22222222222222222222222222222222",
     auth_token |-> "22222222222222222222222222222222"]

Configs == {TestConfig, OtherConfig}

\* a collection whose pages are all full
FullServer == [k \in 1..MaxPages |-> MaxItems]

ClientInit ==
    /\ client \in [config : Configs]
    /\ DispatchIdle
    /\ BuildIdle
    /\ SyncIdle
    /\ RepeatIdle
    /\ ShellIdle
    /\ CliIdle
    /\ family = "none"
    /\ largs = None
    /\ server = FullServer
    /\ lpc = "idle"
    /\ page = None
    /\ results = <<>>
    /\ calls = <<>>
    /\ log = <<>>
    /\ ret = NoResult

\* the loop awaits each operation before it starts another
ClientNext ==
    \/ lpc = "idle" /\ DispatchNext
    \/ dpc = "idle" /\ ListNext

ClientSpec == ClientInit /\ [][ClientNext]_vars

\* the credentials the Client was constructed with, as Basic authentication
Credentials ==
    [username |-> client.config.account_sid,
     password |-> client.config.auth_token]

\* C15: every request sent, by a single dispatch of any method or by a
\* list (its first request and each follow-up), carries Basic
\* authentication with the client's account SID as username and its auth
\* token as password; and no step changes the client's credentials, so they
\* are the ones given at construction.
C15_EveryRequestAuthenticated ==
    /\ [](/\ \A i \in DOMAIN sends : sends[i].auth = Credentials
          /\ \A i \in DOMAIN calls : calls[i].auth = Credentials)
    /\ [][client' = client]_vars

C15_Witness_FollowUpAuthenticated ==
    /\ lpc = "next"
    /\ Len(calls) = 3
    /\ calls[3].auth.username = OtherConfig.account_sid
    /\ calls[3].auth.password = OtherConfig.auth_token


\* the requests sent whose dispatch has not returned
InFlight ==
    (IF dpc = "in_flight" THEN Len(sends) ELSE 0) + (Len(calls) - Len(log))

\* the identifiers of the items of the first n pages
IdsOfPages(f, srv, n) ==
    [i \in 1..ItemsBefore(srv, n + 1) |-> ItemSid(f, i)]

RECURSIVE Digits(_)
Digits(n) ==
    LET d == <<"0", "1", "2", "3", "4", "5", "6", "7", "8", "9">>[(n % 10) + 1]
    IN IF n < 10 THEN <<d>> ELSE Digits(n \div 10) \o <<d>>

\* Option<u16> and Option<bool> as serde_urlencoded writes their values
U16Value(o) == IF o.some THEN Some(Digits(o.v)) ELSE None
BoolValue(o) ==
    IF o.some THEN Some(IF o.v THEN <<"true">> ELSE <<"false">>) ELSE None

\* CreateOrUpdateParams under #[skip_serializing_none] and PascalCase: the
\* fields in declaration order
SerializeCreateOrUpdate(p) ==
    <<[k |-> "FriendlyName", v |-> p.friendly_name],
      [k |-> "WebhookUrl", v |-> p.webhook_url],
      [k |-> "ReachabilityWebhooksEnabled",
       v |-> BoolValue(p.reachability_webhooks_enabled)],
      [k |-> "AclEnabled", v |-> BoolValue(p.acl_enabled)],
      [k |-> "ReachabilityDebouncingEnabled",
       v |-> BoolValue(p.reachability_debouncing_enabled)],
      [k |-> "ReachabilityDebouncingWindow",
       v |-> U16Value(p.reachability_debouncing_window)],
      [k |-> "WebhooksFromRestEnabled",
       v |-> BoolValue(p.webhooks_from_rest_enabled)]>>

\* (mutant of validate_reachability_debouncing_window: the lower bound is
\* exclusive)
validate_reachability_debouncing_window_mut_exclusive(w) ==
    IF w <= 1000
    THEN Err("ValidationError",
             "Reachability debouncing window must be greater than 1000 milliseconds")
    ELSE IF w > 30000
    THEN Err("ValidationError",
             "Reachability debouncing window must be less than 30,000 milliseconds")
    ELSE Ok(Unit)

validate_reachability_debouncing_window(w) ==
    IF w < 1000
    THEN Err("ValidationError",
             "Reachability debouncing window must be greater than 1000 milliseconds")
    ELSE IF w > 30000
    THEN Err("ValidationError",
             "Reachability debouncing window must be less than 30,000 milliseconds")
    ELSE Ok(Unit)

\* (mutant of validate_params: the window is never validated)
validate_params_mut_skipped(params) == Ok(Unit)

\* the head of create and of update: `if let Some(w) = params.reachability_
\* debouncing_window`, the validator's verdict; nothing to validate otherwise
validate_params(params) ==
    IF params.reachability_debouncing_window.some
    THEN validate_reachability_debouncing_window(
             params.reachability_debouncing_window.v)
    ELSE Ok(Unit)

\* the URL of Services::create and of Service::update
ServiceUrl(op, sid) ==
    IF op = "create" THEN Url(<<"https://sync.twilio.com/v1/Services">>, <<>>)
    ELSE Url(<<"https://sync.twilio.com/v1/Services/", sid>>, <<>>)

\* the call's inputs: u16 windows around both limits, and the type's ends
Windows == {0, 1, 999, 1000, 1001, 5000, 29999, 30000, 30001, 65535}
WindowChoices == {None} \cup {Some(w) : w \in Windows}
ServiceSids == {"IS1", "my-service"}
ServiceParams ==
    {CreateOrUpdateParams(n, a, w) :
        n \in {None, Some(<<"s">>)}, a \in {None, Some(TRUE)},
        w \in WindowChoices}
Operations ==
    {[op |-> "create", sid |-> "none", params |-> p] : p \in ServiceParams}
    \cup {[op |-> "update", sid |-> sid, params |-> p] :
             sid \in ServiceSids, p \in ServiceParams}

\* what `.send()` gives for each way the remote and the network can behave
ServiceRemotes == {"created", "updated", "timeout", "rejected", "truncated"}
ServiceOutcome(remote) ==
    CASE remote = "created" -> Response(201, ItemDoc("SyncServices", 1))
      [] remote = "updated" -> Response(200, ItemDoc("SyncServices", 1))
      [] remote = "timeout" -> SendFailed("timeout")
      [] remote = "rejected" -> Response(400, ErrorDoc(20001, 400))
      [] remote = "truncated" -> Response(201, NotJson)

\* create or update up to its first await: a failed validation returns, a
\* passed or skipped one sends the POST
ServiceCall ==
    /\ spc = "idle"
    /\ \E o \in Operations :
         /\ sop' = o
         /\ IF validate_params(o.params).tag = "Err"
            THEN /\ sret' = validate_params(o.params)
                 /\ swire' = <<>>
                 /\ spc' = "done"
            ELSE /\ sret' = NoResult
                 /\ swire' = <<send_http_request(
                                  client.config, "POST",
                                  ServiceUrl(o.op, o.sid),
                                  Some(SerializeCreateOrUpdate(o.params)))>>
                 /\ spc' = "in_flight"
    /\ UNCHANGED <<cliVars, client, dispatchVars, listVars, buildVars, repeatVars, shellVars>>

\* the dispatch returns and create or update hands its result on
ServiceAnswered ==
    /\ spc = "in_flight"
    /\ \E remote \in ServiceRemotes :
         sret' = send_request(SyncService, ServiceOutcome(remote))
    /\ spc' = "done"
    /\ UNCHANGED <<cliVars, client, sop, swire, dispatchVars, listVars, buildVars, repeatVars, shellVars>>

ServiceReturn ==
    /\ spc = "done"
    /\ spc' = "idle"
    /\ sop' = NoOperation
    /\ swire' = <<>>
    /\ sret' = NoResult
    /\ UNCHANGED <<cliVars, client, dispatchVars, listVars, buildVars, repeatVars, shellVars>>

SyncNext == ServiceCall \/ ServiceAnswered \/ ServiceReturn

SyncSpec == Init /\ [][SyncNext]_vars

\* the window the operation was called with
Window == sop.params.reachability_debouncing_window
OutOfRange == Window.some /\ (Window.v < 1000 \/ Window.v > 30000)
InRange == Window.some /\ Window.v >= 1000 /\ Window.v <= 30000
Validation == sret.tag = "Err" /\ sret.kind = "ValidationError"

\* C17: a create or update of a Sync Service whose reachability_debouncing_
\* window is outside 1000..30000 has returned a Validation error as soon as it
\* is called, and no HTTP request was issued for it.
C17_OutOfRangeFailsBeforeAnyRequest ==
    (spc # "idle" /\ OutOfRange) =>
        /\ spc = "done"
        /\ Validation
        /\ swire = <<>>

C17_Witness_UpdateAboveRange ==
    /\ spc = "done"
    /\ sop.op = "update"
    /\ Window = Some(30001)
    /\ Validation
    /\ swire = <<>>

\* the form pairs of the one request the operation sent
SentPairs == ParsePairs(swire[1].body.form)

\* C20: the validator accepts exactly the windows w with 1000 <= w <= 30000,
\* both limits included: such a call sends its request, carrying the window,
\* and never returns a Validation error; a window below 1000 or above 30000 is
\* rejected with a Validation error; a call without a window is not validated
\* and sends its request.
C20_AcceptsExactlyTheClosedRange ==
    spc # "idle" =>
        /\ InRange =>
              /\ ~Validation
              /\ Len(swire) = 1
              /\ \E i \in DOMAIN SentPairs :
                    SentPairs[i] = <<<<"ReachabilityDebouncingWindow">>,
                                     Digits(Window.v)>>
        /\ OutOfRange => Validation
        /\ ~Window.some =>
              /\ ~Validation
              /\ Len(swire) = 1
              /\ \A i \in DOMAIN SentPairs :
                    SentPairs[i][1] # <<"ReachabilityDebouncingWindow">>
        /\ Validation <=> OutOfRange

C20_Witness_LimitsAccepted ==
    /\ spc = "done"
    /\ Window \in {Some(1000), Some(30000)}
    /\ sret.tag = "Ok"
    /\ Len(swire) = 1

(***************************************************************************)
(* Reads of one resource: Accounts::get and Conversations::get issued again *)
(* and again by one client while the remote resource stays as it is.       *)
(***************************************************************************)
\* Accounts::get: the SID given, or the client's own
AccountUrl(config, sid) ==
    Url(<<"https://api.twilio.com/2010-04-01/Accounts/",
          IF sid.some THEN sid.v ELSE config.account_sid, ".json">>, <<>>)

\* Conversations::get
ConversationUrl(sid) ==
    Url(<<"https://conversations.twilio.com/v1/Conversations/", sid>>, <<>>)

\* the reads a caller can issue: GET, no parameters
Reads(config) ==
    {[method |-> "GET", url |-> AccountUrl(config, sid), params |-> None] :
        sid \in {None, Some("AC1"), Some("AC404")}}
    \cup {[method |-> "GET", url |-> ConversationUrl(sid), params |-> None] :
             sid \in {"CH1", "CH404"}}

\* the type the read asks the dispatch for
ReadType(r) ==
    IF Head(r.url.base) = Head(ConversationUrl("").base) THEN Conversation
    ELSE Account

\* the ways the remote resource can be; it stays the way it is
ResourceStates == {"present", "renamed", "absent", "rate_limiting", "garbled"}

\* the resource a request addresses, as the remote holds it
Addressed(w) ==
    IF Head(w.base) = Head(ConversationUrl("").base)
    THEN IF w.base[2] = "CH1" THEN Some("conversation") ELSE None
    ELSE IF w.base[2] \in {"AC1", TestConfig.account_sid} THEN Some("account")
    ELSE None

ResourceDoc(state, name) ==
    LET doc == IF name = "account" THEN AccountDoc
               ELSE ItemDoc("Conversations", 1)
    IN IF state = "renamed"
       THEN [doc EXCEPT !.v.friendly_name = JStr("renamed")]
       ELSE doc

\* the remote's answer: a function of its state and of the request received
RemoteAnswer(state, w) ==
    IF w.auth # BasicAuth(TestConfig) THEN Response(401, ErrorDoc(20003, 401))
    ELSE IF state = "rate_limiting" THEN Response(429, ErrorDoc(20429, 429))
    ELSE IF state = "garbled" THEN Response(200, NotJson)
    ELSE IF state = "absent" \/ ~Addressed(w).some
    THEN Response(404, ErrorDoc(20404, 404))
    ELSE Response(200, ResourceDoc(state, Addressed(w).v))

RepeatInit ==
    /\ client \in [config : Configs]
    /\ DispatchIdle
    /\ ListIdle
    /\ BuildIdle
    /\ SyncIdle
    /\ resource \in ResourceStates
    /\ prev = NoPrevious
    /\ ShellIdle
    /\ CliIdle

Get ==
    /\ dpc = "idle"
    /\ \E r \in Reads(client.config) :
         /\ req' = r
         /\ wire' = send_http_request(client.config, r.method, r.url, r.params)
         /\ sends' = <<send_http_request(client.config, r.method, r.url,
                                         r.params)>>
    /\ dpc' = "in_flight"
    /\ UNCHANGED <<cliVars, client, crate, entry, outcome, result, listVars, buildVars,
                   syncVars, repeatVars, shellVars>>

GetFails ==
    /\ dpc = "in_flight"
    /\ \E cause \in Causes :
         /\ outcome' = [SendFailed(cause) EXCEPT !.body = "none"]
         /\ result' = send_request(ReadType(req), SendFailed(cause))
    /\ dpc' = "done"
    /\ UNCHANGED <<cliVars, client, crate, entry, req, wire, sends, listVars, buildVars,
                   syncVars, repeatVars, shellVars>>

GetAnswered ==
    /\ dpc = "in_flight"
    /\ outcome' = [RemoteAnswer(resource, wire) EXCEPT !.body = resource]
    /\ result' = send_request(ReadType(req), RemoteAnswer(resource, wire))
    /\ dpc' = "done"
    /\ UNCHANGED <<cliVars, client, crate, entry, req, wire, sends, listVars, buildVars,
                   syncVars, repeatVars, shellVars>>

\* the caller has the result and may read again
GetReturn ==
    /\ dpc = "done"
    /\ prev' = [some |-> TRUE, req |-> req,
                answered |-> IF outcome.ok THEN "remote" ELSE outcome.cause,
                result |-> result]
    /\ req' = NoRequest
    /\ wire' = NoWire
    /\ sends' = <<>>
    /\ outcome' = NoOutcome
    /\ result' = NoResult
    /\ dpc' = "idle"
    /\ UNCHANGED <<cliVars, client, crate, entry, resource, listVars, buildVars,
                   syncVars, shellVars>>

RepeatNext == Get \/ GetFails \/ GetAnswered \/ GetReturn

RepeatSpec == RepeatInit /\ [][RepeatNext]_vars

\* the read that has just returned is the one the client made before
Repeated == dpc = "done" /\ prev.some /\ prev.req = req

DisplayApiError(e) ==
    Digits(e.status) \o <<" from Twilio. (">> \o Digits(e.code)
    \o <<") ", e.message, ". For more info see: ", e.more_info>>

\* impl fmt::Display for TwilioError: ErrorKind::as_str
DisplayError(r) ==
    CASE r.kind = "ValidationError" ->
            <<"Validation error for provided arguments: ", r.val>>
      [] r.kind = "NetworkError" ->
            <<"Network error reaching Twilio: ", r.val>>
      [] r.kind = "ParsingError" -> <<"Unable to parse response: ", r.val>>
      [] r.kind = "TwilioError" -> <<"Error: ">> \o DisplayApiError(r.val)

\* println!: the shell goes on; panic!: the message goes to stderr and the
\* process ends
Println(text) == [next |-> "menu", stream |-> "stdout", text |-> text]
Panic(text) == [next |-> "terminated", stream |-> "stderr", text |-> text]

\* the match of the three call sites on an Err of Conversations::get and
\* Conversations::delete
conversation_error(sid, r) ==
    IF r.kind = "TwilioError"
    THEN IF r.val.status = 404
         THEN Println(<<"A Conversation with SID '", sid, "' was not found.">>)
         ELSE Panic(DisplayApiError(r.val))
    ELSE Panic(DisplayError(r))

\* choose_conversation_action, Action::GetConversation
get_conversation(sid, r) ==
    IF r.tag = "Ok" THEN Println(<<"Conversation found.">>)
    ELSE conversation_error(sid, r)

\* delete_conversation, once the user has confirmed
delete_conversation(sid, r) ==
    IF r.tag = "Ok" THEN Println(<<"Conversation deleted.">>)
    ELSE conversation_error(sid, r)

\* choose_account_action, Action::GetAccount:
\* `.unwrap_or_else(|error| panic!("{}", error))`
get_account(sid, r) ==
    IF r.tag = "Ok" THEN Println(<<"{:#?}">>)
    ELSE Panic(DisplayError(r))

ShellActions == {"GetConversation", "DeleteConversation", "GetAccount"}

\* SIDs that pass the prompts' validators: the prefix and 34 characters
ShellSids(action) ==
    IF action = "GetAccount"
    THEN {"AC00000000000000000000000000000001",
          "AC00000000000000000000000000000002",
          "AC00000000000000000000000000000003"}
    ELSE {"CH00000000000000000000000000000001",
          "CH00000000000000000000000000000002",
          "CH00000000000000000000000000000003"}

\* what the remote and the network can do to the operation, by name
ShellOutcomes ==
    {"found", "not_found", "bad_request", "unauthorized", "forbidden",
     "conflict", "rate_limited", "server_error", "bad_gateway",
     "not_found_page", "garbled", "timeout", "connect"}

ShellOutcome(action, o) ==
    CASE o = "found" /\ action = "GetConversation" ->
            Response(200, ItemDoc("Conversations", 1))
      [] o = "found" /\ action = "DeleteConversation" -> Response(204, NotJson)
      [] o = "found" /\ action = "GetAccount" -> Response(200, AccountDoc)
      [] o = "not_found" -> Response(404, ErrorDoc(20404, 404))
      [] o = "bad_request" -> Response(400, ErrorDoc(20001, 400))
      [] o = "unauthorized" -> Response(401, ErrorDoc(20003, 401))
      [] o = "forbidden" -> Response(403, ErrorDoc(20403, 403))
      [] o = "conflict" -> Response(409, ErrorDoc(20409, 409))
      [] o = "rate_limited" -> Response(429, ErrorDoc(20429, 429))
      [] o = "server_error" -> Response(500, ErrorDoc(20500, 500))
      [] o = "bad_gateway" -> Response(502, NotJson)
      [] o = "not_found_page" -> Response(404, NotJson)
      [] o = "garbled" -> Response(200, NotJson)
      [] o = "timeout" -> SendFailed("timeout")
      [] o = "connect" -> SendFailed("connect")

\* the library operation behind each action
ShellOperation(action, sent) ==
    CASE action = "GetConversation" -> send_request(Conversation, sent)
      [] action = "DeleteConversation" -> send_request_and_ignore_response(sent)
      [] action = "GetAccount" -> send_request(Account, sent)

ShellHandle(action, sid, r) ==
    CASE action = "GetConversation" -> get_conversation(sid, r)
      [] action = "DeleteConversation" -> delete_conversation(sid, r)
      [] action = "GetAccount" -> get_account(sid, r)

\* the user selects an action and answers its prompts; the operation is
\* awaited
ShellChoose ==
    /\ shpc = "menu"
    /\ \E action \in ShellActions :
         \E sid \in ShellSids(action) :
            schoice' = [action |-> action, sid |-> sid]
    /\ sres' = NoResult
    /\ printed' = NothingPrinted
    /\ shpc' = "awaiting"
    /\ UNCHANGED <<cliVars, client, dispatchVars, listVars, buildVars, syncVars,
                   repeatVars>>

\* the operation returns and the call site's match runs
ShellResult ==
    /\ shpc = "awaiting"
    /\ \E o \in ShellOutcomes :
         LET r == ShellOperation(schoice.action,
                                 ShellOutcome(schoice.action, o))
             h == ShellHandle(schoice.action, schoice.sid, r)
         IN /\ sres' = r
            /\ printed' = [stream |-> h.stream, text |-> h.text]
            /\ shpc' = h.next
    /\ UNCHANGED <<cliVars, client, schoice, dispatchVars, listVars, buildVars,
                   syncVars, repeatVars>>

ShellNext == ShellChoose \/ ShellResult

ShellSpec == Init /\ [][ShellNext]_vars

\* the operation has returned an error and the shell has dealt with it
ErrorHandled == shpc # "awaiting" /\ sres.tag = "Err"
NotFound == sres.kind = "TwilioError" /\ sres.val.status = 404

\* C19: the shell answers an Api error of status 404 with a "not found"
\* message and is back at its menu; after any other error of an operation
\* (Api with another status, Network, Parse, Validation) the process has
\* terminated with a message printed.
C19_NotFoundContinuesOthersFatal ==
    ErrorHandled =>
        IF NotFound
        THEN /\ shpc = "menu"
             /\ printed.stream = "stdout"
             /\ printed.text # <<>>
             /\ printed.text[Len(printed.text)] = "' was not found."
        ELSE /\ shpc = "terminated"
             /\ printed.stream = "stderr"
             /\ printed.text # <<>>

(***************************************************************************)
(* The Sync Map rename of the shell (sync/maps.rs, Action::Rename): a      *)
(* temporary map is created, the items are fetched and copied into it, the *)
(* user confirms, the original is deleted, the new map is created and the  *)
(* items are copied into it.                                               *)
(***************************************************************************)
MaxMapItems == 2

\* the position after a step, from how the step went for the shell (a prompt
\* answered yes, a request that returned Ok) and whether items are left to
\* copy: `break` and `return` both end the flow, the failed delete panics
\* (mutant of rename_after: a failed copy does not end the flow)
rename_after_mut_copy_error_ignored(step, went, left) ==
    CASE step = "name" -> IF went THEN "confirm" ELSE "stopped"
      [] step = "confirm" -> IF went THEN "create_temp" ELSE "stopped"
      [] step = "create_temp" -> IF went THEN "fetch" ELSE "stopped"
      [] step = "fetch" ->
            IF ~went THEN "stopped" ELSE IF left THEN "copy" ELSE "confirm_copy"
      [] step = "copy" -> IF left THEN "copy" ELSE "confirm_copy"
      [] step = "confirm_copy" -> IF went THEN "delete" ELSE "stopped"
      [] step = "delete" -> IF went THEN "create_new" ELSE "panicked"
      [] step = "create_new" ->
            IF ~went THEN "stopped" ELSE IF left THEN "copy_new" ELSE "done"
      [] step = "copy_new" ->
            IF ~went THEN "stopped" ELSE IF left THEN "copy_new" ELSE "done"

\* (mutant of rename_after: the original is deleted as soon as the items
\* are fetched, the copy comes after)
rename_after_mut_delete_before_copy(step, went, left) ==
    CASE step = "name" -> IF went THEN "confirm" ELSE "stopped"
      [] step = "confirm" -> IF went THEN "create_temp" ELSE "stopped"
      [] step = "create_temp" -> IF went THEN "fetch" ELSE "stopped"
      [] step = "fetch" -> IF went THEN "delete" ELSE "stopped"
      [] step = "delete" ->
            IF ~went THEN "panicked" ELSE IF left THEN "copy" ELSE "confirm_copy"
      [] step = "copy" ->
            IF ~went THEN "stopped" ELSE IF left THEN "copy" ELSE "confirm_copy"
      [] step = "confirm_copy" -> IF went THEN "create_new" ELSE "stopped"
      [] step = "create_new" ->
            IF ~went THEN "stopped" ELSE IF left THEN "copy_new" ELSE "done"
      [] step = "copy_new" ->
            IF ~went THEN "stopped" ELSE IF left THEN "copy_new" ELSE "done"

rename_after(step, went, left) ==
    CASE step = "name" -> IF went THEN "confirm" ELSE "stopped"
      [] step = "confirm" -> IF went THEN "create_temp" ELSE "stopped"
      [] step = "create_temp" -> IF went THEN "fetch" ELSE "stopped"
      [] step = "fetch" ->
            IF ~went THEN "stopped" ELSE IF left THEN "copy" ELSE "confirm_copy"
      [] step = "copy" ->
            IF ~went THEN "stopped" ELSE IF left THEN "copy" ELSE "confirm_copy"
      [] step = "confirm_copy" -> IF went THEN "delete" ELSE "stopped"
      [] step = "delete" -> IF went THEN "create_new" ELSE "panicked"
      [] step = "create_new" ->
            IF ~went THEN "stopped" ELSE IF left THEN "copy_new" ELSE "done"
      [] step = "copy_new" ->
            IF ~went THEN "stopped" ELSE IF left THEN "copy_new" ELSE "done"

\* how a request can go: answered 2xx; refused by the remote, nothing done;
\* done by the remote with the answer lost on the way back
RequestOutcomes == {"ok", "rejected", "lost_reply"}
PromptAnswers == {"yes", "no", "cancelled"}
Applied(o) == o \in {"ok", "lost_reply"}

\* an entry of the flow's record
Entry(step, target, key, o) ==
    [step |-> step, target |-> target, key |-> key, outcome |-> o]

\* the map a step addresses: selected_sync_map, temp_map or new_map
RenameTarget(step) ==
    CASE step \in {"fetch", "delete"} -> "original"
      [] step \in {"create_temp", "copy"} -> "temp"
      [] step \in {"create_new", "copy_new"} -> "renamed"
      [] OTHER -> "none"

\* what the remote holds after a request that it carried out
RemoteAfter(maps, step, key) ==
    CASE step \in {"create_temp", "create_new"} ->
            [maps EXCEPT ![RenameTarget(step)] = [exists |-> TRUE, items |-> {}]]
      [] step \in {"copy", "copy_new"} ->
            [maps EXCEPT ![RenameTarget(step)].items = @ \cup {key}]
      [] step = "delete" ->
            [maps EXCEPT !.original = [exists |-> FALSE, items |-> {}]]
      [] OTHER -> maps

\* a create is refused when a map of that unique name exists; an item cannot
\* be put into a map that does not exist
CanApply(maps, step) ==
    CASE step \in {"create_temp", "create_new"} ->
            ~maps[RenameTarget(step)].exists
      [] step \in {"copy", "copy_new", "delete"} ->
            maps[RenameTarget(step)].exists
      [] OTHER -> TRUE

\* the keys not yet copied in the running loop over `items`
Copied(step) ==
    {rlog[i].key : i \in {j \in DOMAIN rlog : rlog[j].step = step}}
LeftAfter(step, key) ==
    \E i \in DOMAIN rmem.v : rmem.v[i] \notin Copied(step) \cup {key}
NextKey(step) ==
    rmem.v[CHOOSE i \in DOMAIN rmem.v :
              /\ rmem.v[i] \notin Copied(step)
              /\ \A j \in 1..(i - 1) : rmem.v[j] \in Copied(step)]

\* the original map with 0..MaxMapItems items; a map by the temporary name,
\* or by the new name, may be there already
RenameInit ==
    /\ client = [config |-> TestConfig]
    /\ ExceptRenameIdle
    /\ rpc = "menu"
    /\ \E n \in 0..MaxMapItems :
         \E t \in BOOLEAN, r \in BOOLEAN :
            rremote = [original |-> [exists |-> TRUE, items |-> 1..n],
                       temp |-> [exists |-> t, items |-> {}],
                       renamed |-> [exists |-> r, items |-> {}]]
    /\ rmem = None
    /\ rlog = <<>>

\* the user picks Rename and gives the new name, or cancels the prompt
RenameChosen ==
    /\ rpc = "menu"
    /\ \E a \in {"yes", "cancelled"} :
         /\ rlog' = Append(rlog, Entry("name", "none", 0, a))
         /\ rpc' = rename_after("name", a = "yes", FALSE)
    /\ UNCHANGED <<rremote, rmem, exceptRenameVars>>

\* the two confirmations: the warning, and the copy
RenamePrompt(step) ==
    /\ rpc = step
    /\ \E a \in PromptAnswers :
         /\ rlog' = Append(rlog, Entry(step, "none", 0, a))
         /\ rpc' = rename_after(step, a = "yes", FALSE)
    /\ UNCHANGED <<rremote, rmem, exceptRenameVars>>

ConfirmRename == RenamePrompt("confirm")
ConfirmCopy == RenamePrompt("confirm_copy")

\* a request on a map as a whole: maps().create, map(sid).delete()
RenameRequest(step) ==
    /\ rpc = step
    /\ \E o \in RequestOutcomes :
         /\ (Applied(o) => CanApply(rremote, step))
         /\ rlog' = Append(rlog, Entry(step, RenameTarget(step), 0, o))
         /\ rremote' = IF Applied(o) THEN RemoteAfter(rremote, step, 0)
                       ELSE rremote
         /\ rpc' = rename_after(step, o = "ok", rmem.some /\ rmem.v # <<>>)
    /\ UNCHANGED <<rmem, exceptRenameVars>>

CreateTemporaryMap == RenameRequest("create_temp")
DeleteOriginalMap == RenameRequest("delete")
CreateNewMap == RenameRequest("create_new")

\* mapitems().list of the original map: every item, or an error
FetchItems ==
    /\ rpc = "fetch"
    /\ \E o \in {"ok", "rejected"} :
         LET keys == [i \in 1..Cardinality(rremote.original.items) |-> i]
         IN /\ rlog' = Append(rlog, Entry("fetch", "original", 0, o))
            /\ rmem' = IF o = "ok" THEN Some(keys) ELSE rmem
            /\ rpc' = rename_after("fetch", o = "ok", keys # <<>>)
    /\ UNCHANGED <<rremote, exceptRenameVars>>

\* one turn of `for item in items.iter()`: mapitems().create
CopyStep(step) ==
    /\ rpc = step
    /\ \E o \in RequestOutcomes :
         LET key == NextKey(step)
         IN /\ (Applied(o) => CanApply(rremote, step))
            /\ rlog' = Append(rlog, Entry(step, RenameTarget(step), key, o))
            /\ rremote' = IF Applied(o) THEN RemoteAfter(rremote, step, key)
                          ELSE rremote
            /\ rpc' = rename_after(step, o = "ok", LeftAfter(step, key))
    /\ UNCHANGED <<rmem, exceptRenameVars>>

CopyItem == CopyStep("copy")
CopyItemToNew == CopyStep("copy_new")

RenameNext ==
    \/ RenameChosen
    \/ ConfirmRename
    \/ CreateTemporaryMap
    \/ FetchItems
    \/ CopyItem
    \/ ConfirmCopy
    \/ DeleteOriginalMap
    \/ CreateNewMap
    \/ CopyItemToNew

RenameSpec == RenameInit /\ [][RenameNext]_vars

\* the positions in the record of the entries of a step
At(step) == {i \in DOMAIN rlog : rlog[i].step = step}
Went(i) == rlog[i].outcome \in {"ok", "yes"}
\* the step of each entry follows the announced order
StepNo(step) ==
    CASE step = "name" -> 0
      [] step = "confirm" -> 0
      [] step = "create_temp" -> 1
      [] step = "fetch" -> 2
      [] step = "copy" -> 2
      [] step = "confirm_copy" -> 3
      [] step = "delete" -> 4
      [] step = "create_new" -> 5
      [] step = "copy_new" -> 6

\* C21: the rename runs its steps in the announced order (temporary map,
\* copy, confirmation, delete of the original, new map, copy into it); no
\* request deletes the temporary map; the delete of the original comes after
\* the temporary map was created, every fetched item was copied into it and
\* the user confirmed; the new map is created after the original was deleted;
\* and a step that failed or was cancelled is the last step of the flow.
C21_RenameStepsInOrder ==
    /\ \A i \in DOMAIN rlog : \A j \in DOMAIN rlog :
          i < j => StepNo(rlog[i].step) <= StepNo(rlog[j].step)
    /\ \A i \in DOMAIN rlog :
          rlog[i].step = "delete" => rlog[i].target = "original"
    /\ \A d \in At("delete") :
          /\ \E c \in At("create_temp") : c < d /\ Went(c)
          /\ \E f \in At("fetch") : f < d /\ Went(f)
          /\ \A k \in DOMAIN rmem.v :
                \E c \in At("copy") :
                   c < d /\ Went(c) /\ rlog[c].key = rmem.v[k]
          /\ \E c \in At("confirm_copy") : c < d /\ Went(c)
    /\ \A n \in At("create_new") : \E d \in At("delete") : d < n /\ Went(d)
    /\ \A i \in DOMAIN rlog : ~Went(i) => i = Len(rlog)
    /\ rpc \in {"stopped", "panicked"} <=>
          (rlog # <<>> /\ ~Went(Len(rlog)))

C21_Witness_RenamedWithTwoItems ==
    /\ rpc = "done"
    /\ Len(rmem.v) = MaxMapItems
    /\ rremote.renamed.items = 1..MaxMapItems
    /\ rremote.temp.exists
    /\ ~rremote.original.exists

\* C25: once the items are fetched, each of them is held by the original map,
\* if that still exists, or by the temporary map, wherever the flow is or has
\* stopped.
C25_EveryFetchedItemStored ==
    rmem.some =>
        \A k \in DOMAIN rmem.v :
           \/ rremote.original.exists /\ rmem.v[k] \in rremote.original.items
           \/ rremote.temp.exists /\ rmem.v[k] \in rremote.temp.items

C25_Witness_PanicAfterLostDelete ==
    /\ rpc = "panicked"
    /\ ~rremote.original.exists
    /\ Len(rmem.v) = MaxMapItems
    /\ rremote.temp.items = 1..MaxMapItems

(***************************************************************************)
(* The delete of all conversations: the shell's action (twilly_cli and     *)
(* twilio_cli: two confirmations, the list, one delete per conversation)   *)
(* and twilio_rust's Conversations::delete_all (the list and the deletes). *)
(***************************************************************************)
MaxConversations == 3

\* (mutant of delete_all_after: a failed delete does not end the loop)
delete_all_after_mut_continue_on_error(variant, step, went, left) ==
    CASE step = "confirm_first" -> IF went THEN "confirm_second" ELSE "cancelled"
      [] step = "confirm_second" -> IF went THEN "list" ELSE "cancelled"
      [] step = "list" ->
            IF ~went THEN IF variant = "delete_all" THEN "failed" ELSE "panicked"
            ELSE IF left THEN "delete" ELSE "done"
      [] step = "delete" -> IF left THEN "delete" ELSE "done"

\* (mutant of delete_all_after: the second confirmation is not asked for)
delete_all_after_mut_one_confirmation(variant, step, went, left) ==
    CASE step = "confirm_first" -> IF went THEN "list" ELSE "cancelled"
      [] step = "confirm_second" -> IF went THEN "list" ELSE "cancelled"
      [] step = "list" ->
            IF ~went THEN IF variant = "delete_all" THEN "failed" ELSE "panicked"
            ELSE IF left THEN "delete" ELSE "done"
      [] step = "delete" ->
            IF ~went THEN IF variant = "delete_all" THEN "failed" ELSE "panicked"
            ELSE IF left THEN "delete" ELSE "done"

\* the position after a step: a prompt not answered yes cancels; an Err of
\* the list or of a delete panics in the shell (unwrap_or_else) and is
\* returned by delete_all (`?`); the loop goes on while conversations are left
delete_all_after(variant, step, went, left) ==
    CASE step = "confirm_first" -> IF went THEN "confirm_second" ELSE "cancelled"
      [] step = "confirm_second" -> IF went THEN "list" ELSE "cancelled"
      [] step = "list" ->
            IF ~went THEN IF variant = "delete_all" THEN "failed" ELSE "panicked"
            ELSE IF left THEN "delete" ELSE "done"
      [] step = "delete" ->
            IF ~went THEN IF variant = "delete_all" THEN "failed" ELSE "panicked"
            ELSE IF left THEN "delete" ELSE "done"

\* where each implementation starts: delete_all asks nothing
delete_all_start(variant) ==
    IF variant = "delete_all" THEN "list" ELSE "confirm_first"

\* the conversation the loop is at: `for conversation in conversations`,
\* into_iter().try_for_each
next_conversation(listed, deletes) == listed[deletes + 1]

DeleteAllVariants == {"twilly_cli", "twilio_cli", "delete_all"}

\* the orders in which the remote can list n conversations
ListOrders(n) ==
    {[i \in 1..n |-> i], [i \in 1..n |-> n + 1 - i]}

DeletesIssued == {i \in DOMAIN dalog : dalog[i].step = "delete"}

BulkInit ==
    /\ client = [config |-> TestConfig]
    /\ ExceptBulkIdle
    /\ dapc = "menu"
    /\ davariant = "none"
    /\ \E n \in 0..MaxConversations : daremote = [all |-> n, left |-> 1..n]
    /\ dalist = None
    /\ dalog = <<>>

\* the action is chosen in the shell, or delete_all is called
DeleteAllChosen ==
    /\ dapc = "menu"
    /\ \E v \in DeleteAllVariants :
         /\ davariant' = v
         /\ dapc' = delete_all_start(v)
    /\ UNCHANGED <<daremote, dalist, dalog, exceptBulkVars>>

DeleteAllPrompt(step) ==
    /\ dapc = step
    /\ \E a \in PromptAnswers :
         /\ dalog' = Append(dalog, Entry(step, "none", 0, a))
         /\ dapc' = delete_all_after(davariant, step, a = "yes", FALSE)
    /\ UNCHANGED <<davariant, daremote, dalist, exceptBulkVars>>

FirstConfirmation == DeleteAllPrompt("confirm_first")
SecondConfirmation == DeleteAllPrompt("confirm_second")

\* conversations().list(None, None, None): every conversation, or an error
ListAll ==
    /\ dapc = "list"
    /\ \/ \E l \in ListOrders(Cardinality(daremote.left)) :
            /\ dalog' = Append(dalog, Entry("list", "conversations", 0, "ok"))
            /\ dalist' = Some(l)
            /\ dapc' = delete_all_after(davariant, "list", TRUE, l # <<>>)
       \/ /\ dalog' = Append(dalog, Entry("list", "conversations", 0, "rejected"))
          /\ dalist' = dalist
          /\ dapc' = delete_all_after(davariant, "list", FALSE, FALSE)
    /\ UNCHANGED <<davariant, daremote, exceptBulkVars>>

\* one turn of the loop: conversations().delete(&conversation.sid)
DeleteOne ==
    /\ dapc = "delete"
    /\ \E o \in RequestOutcomes :
         LET done == Cardinality(DeletesIssued)
             sid == next_conversation(dalist.v, done)
         IN /\ dalog' = Append(dalog, Entry("delete", "conversations", sid, o))
            /\ daremote' = IF Applied(o)
                           THEN [daremote EXCEPT !.left = @ \ {sid}]
                           ELSE daremote
            /\ dapc' = delete_all_after(davariant, "delete", o = "ok",
                                        done + 1 < Len(dalist.v))
    /\ UNCHANGED <<davariant, dalist, exceptBulkVars>>

BulkNext ==
    \/ DeleteAllChosen
    \/ FirstConfirmation
    \/ SecondConfirmation
    \/ ListAll
    \/ DeleteOne

BulkSpec == BulkInit /\ [][BulkNext]_vars

\* the delete requests of the run, in the order issued
Deletes == SelectSeq(dalog, LAMBDA e : e.step = "delete")

\* C22: the delete requests go out one after the other in the order of the
\* list, the k-th delete for the k-th listed conversation and none twice; a
\* delete that failed is the last request of the run, which has then ended.
C22_DeletesInListOrderUntilFailure ==
    /\ Len(Deletes) > 0 => dalist.some
    /\ Len(Deletes) <= Len(dalist.v)
    /\ \A k \in DOMAIN Deletes : Deletes[k].key = dalist.v[k]
    /\ \A i \in DOMAIN dalog :
          (dalog[i].step = "delete" /\ dalog[i].outcome # "ok") =>
              /\ i = Len(dalog)
              /\ dapc \in {"panicked", "failed"}

C22_Witness_SecondDeleteFails ==
    /\ Len(dalist.v) = MaxConversations
    /\ dalist.v[1] = MaxConversations
    /\ Len(Deletes) = 2
    /\ Deletes[2].outcome = "rejected"
    /\ daremote.left = 1..(MaxConversations - 1)
    /\ dapc = "panicked"

\* C24: in the shell a list request or a delete request has been issued only
\* after both confirmations were answered yes; when either was declined or
\* cancelled no request went out and every conversation is still there.
C24_NothingWithoutBothConfirmations ==
    davariant \in {"twilly_cli", "twilio_cli"} =>
        /\ (\E i \in DOMAIN dalog : dalog[i].step \in {"list", "delete"}) =>
              /\ Len(dalog) >= 2
              /\ dalog[1] = Entry("confirm_first", "none", 0, "yes")
              /\ dalog[2] = Entry("confirm_second", "none", 0, "yes")
        /\ dapc = "cancelled" =>
              /\ \A i \in DOMAIN dalog : dalog[i].target = "none"
              /\ daremote.left = 1..daremote.all

C24_Witness_SecondDeclined ==
    /\ davariant = "twilly_cli"
    /\ dapc = "cancelled"
    /\ Len(dalog) = 2
    /\ dalog[2].outcome = "no"
    /\ daremote = [all |-> MaxConversations, left |-> 1..MaxConversations]

(***************************************************************************)
(* get_action_choice_from_user: the caller's options with Back and Exit    *)
(* appended are shown in a Select; the string picked is matched.           *)
(***************************************************************************)
MaxOptions == 2

ActionChoice(tag, choice) == [tag |-> tag, choice |-> choice]

\* Select::prompt through prompt_user_selection: the string of the entry
\* picked, None when the user pressed ESC
prompt_user_selection(shown, pick) ==
    IF pick.cancelled THEN None ELSE Some(shown[pick.entry])

\* twilly_cli matches on the Option; twilio_cli unwraps it first
get_action_choice_from_user(variant, action_options, pick) ==
    LET shown == action_options \o <<"Back", "Exit">>
        action_choice_opt == prompt_user_selection(shown, pick)
    IN IF ~action_choice_opt.some
       THEN IF variant = "twilio_cli"
            THEN ActionChoice("panic",
                              "called Option::unwrap() on a None value")
            ELSE ActionChoice("None", "")
       ELSE CASE action_choice_opt.v = "Back" -> ActionChoice("Back", "")
              [] action_choice_opt.v = "Exit" -> ActionChoice("Exit", "")
              [] OTHER -> ActionChoice("Other", action_choice_opt.v)

\* what callers pass: fixed action names, or the keys and names of the
\* resources listed (choose_map_item_action passes the Map Item keys)
OptionStrings == {"List Details", "Delete", "settings", "Back", "Exit"}
OptionLists ==
    UNION {[1..n -> OptionStrings] : n \in 0..MaxOptions}

MenuInit ==
    /\ client = [config |-> TestConfig]
    /\ ExceptMenuIdle
    /\ MenuIdle

MenuShown ==
    /\ mpc = "idle"
    /\ \E variant \in {"twilly_cli", "twilio_cli"} :
         \E options \in OptionLists :
            mcall' = [variant |-> variant, options |-> options]
    /\ mpc' = "shown"
    /\ UNCHANGED <<mpick, mret, exceptMenuVars>>

MenuAnswered ==
    /\ mpc = "shown"
    /\ \E pick \in {[cancelled |-> TRUE, entry |-> 0]}
                   \cup {[cancelled |-> FALSE, entry |-> i] :
                           i \in 1..(Len(mcall.options) + 2)} :
         /\ mpick' = pick
         /\ mret' = get_action_choice_from_user(mcall.variant, mcall.options,
                                                pick)
    /\ mpc' = "returned"
    /\ UNCHANGED <<mcall, exceptMenuVars>>

MenuNext == MenuShown \/ MenuAnswered

MenuSpec == MenuInit /\ [][MenuNext]_vars

\* the entry picked is one of the caller's, the appended Back, the appended
\* Exit
PickedOwn == ~mpick.cancelled /\ mpick.entry <= Len(mcall.options)
PickedBack == ~mpick.cancelled /\ mpick.entry = Len(mcall.options) + 1
PickedExit == ~mpick.cancelled /\ mpick.entry = Len(mcall.options) + 2

\* C23: the function returns Back only for the appended Back entry, Exit only
\* for the appended Exit entry, Other(choice) with the chosen string for each
\* of the caller's options, and None exactly when the prompt was cancelled.
C23_ChoiceReflectsEntryPicked ==
    mpc = "returned" =>
        /\ mret.tag = "Back" => PickedBack
        /\ mret.tag = "Exit" => PickedExit
        /\ PickedOwn =>
              mret = ActionChoice("Other", mcall.options[mpick.entry])
        /\ mret.tag = "None" <=> mpick.cancelled

\* ---------------------------------------------------------------------------
\* Resource list flows of twilly_cli: a list is fetched, the user picks an
\* entry by its label, then acts on the selected entry (List details, Delete,
\* Back).  Strings are sequences of characters here, because the flows find
\* the picked entry again by slicing its label.
\* ---------------------------------------------------------------------------

MaxEntries == 2

\* a Twilio SID is 34 characters: a two-letter prefix and 32 more
SidLen == 34

Flows == {"conversations", "sync_services", "documents", "maps",
          "environments"}

SidPrefix(flow) ==
    CASE flow = "conversations" -> <<"C", "H">>
      [] flow = "sync_services" -> <<"I", "S">>
      [] flow = "documents"     -> <<"E", "T">>
      [] flow = "maps"          -> <<"M", "P">>
      [] flow = "environments"  -> <<"Z", "E">>

DigitChars == <<"1", "2", "3", "4", "5", "6", "7", "8", "9">>

\* the sid of the n-th resource of a flow, as characters
sid_chars(flow, n) ==
    SidPrefix(flow) \o [i \in 1..(SidLen - 3) |-> "0"] \o <<DigitChars[n]>>

\* which names a resource of the flow can carry: unique_name is a String for
\* documents, maps and environments, an Option for conversations and Sync
\* Services; a Sync Service also has an optional friendly_name
Names(flow) ==
    CASE flow = "conversations" -> {"unique", "none"}
      [] flow = "sync_services" -> {"unique", "friendly", "none"}
      [] OTHER                  -> {"unique"}

NameChars == <<"n">>
StateChars == <<"c", "l", "o", "s", "e", "d">>

\* the label the flow shows for a resource (the format! of each flow)
label(flow, r) ==
    LET sid == sid_chars(flow, r.sid)
        bracketed == <<"(">> \o sid \o <<")", " ">>
    IN  CASE flow = "conversations" ->
               IF r.named = "unique"
               THEN bracketed \o NameChars \o <<" ", "-", " ">> \o StateChars
               ELSE sid \o <<" ", "-", " ">> \o StateChars
          [] flow = "sync_services" ->
               IF r.named \in {"unique", "friendly"}
               THEN bracketed \o NameChars
               ELSE sid
          [] OTHER -> bracketed \o NameChars

\* Rust's s[from..to]: panics when the range ends beyond the string
slice(s, from, to) ==
    IF to > Len(s)
    THEN [ok |-> FALSE, v |-> <<>>]
    ELSE [ok |-> TRUE, v |-> SubSeq(s, from + 1, to)]

\* the part of the chosen label each flow compares with the sids
sid_slice(flow, choice) ==
    IF flow \in {"conversations", "documents"}
    THEN slice(choice, 0, SidLen)
    ELSE slice(choice, 1, SidLen + 1)

\* iter().position(|r| r.sid == key): the first match, 0 for None
position(flow, list, key) ==
    LET hits == {i \in DOMAIN list : sid_chars(flow, list[i].sid) = key}
    IN  IF hits = {} THEN 0
        ELSE CHOOSE i \in hits : \A j \in hits : i <= j

NoIndex == [some |-> FALSE, v |-> 0]
Index(i) == [some |-> TRUE, v |-> i]

\* the lookup after ActionChoice::Other(choice): slice, position, expect
locate(flow, list, choice) ==
    LET key == sid_slice(flow, choice)
    IN  IF ~key.ok
        THEN [panicked |-> TRUE, index |-> NoIndex]
        ELSE LET p == position(flow, list, key.v)
             IN  IF p = 0
                 THEN [panicked |-> TRUE, index |-> NoIndex]
                 ELSE [panicked |-> FALSE, index |-> Index(p)]

DeleteOutcomes == {"ok", "not_found", "rejected", "lost_reply"}

\* the Delete branch of each flow: whether the request is issued, whether the
\* entry is then removed from the list, where the flow goes, and whether the
\* selected index is cleared.  The conversation flow calls
\* delete_conversation, which returns () after a declined or cancelled
\* confirmation and after a 404, and removes the entry when it returns.
delete_selected(flow, answer, o) ==
    LET confirmed == answer = "yes"
        stays == [issued |-> FALSE, removed |-> FALSE, pc |-> "actions",
                  clear |-> FALSE]
        panics == [issued |-> TRUE, removed |-> FALSE, pc |-> "panicked",
                   clear |-> FALSE]
    IN  CASE flow = "conversations" ->
               IF confirmed /\ o \notin {"ok", "not_found"}
               THEN panics
               ELSE [issued |-> confirmed, removed |-> TRUE, pc |-> "list",
                     clear |-> TRUE]
          [] flow = "documents" ->
               IF ~confirmed THEN stays
               ELSE IF o # "ok" THEN panics
               ELSE [issued |-> TRUE, removed |-> TRUE, pc |-> "list",
                     clear |-> TRUE]
          [] OTHER ->
               IF ~confirmed THEN stays
               ELSE IF o # "ok" THEN panics
               ELSE [issued |-> TRUE, removed |-> TRUE, pc |-> "left",
                     clear |-> FALSE]

\* the endpoint a flow's Delete addresses: host and collection of the URL
Endpoint(host, collection) == [host |-> host, collection |-> collection]

delete_endpoint(flow) ==
    CASE flow = "conversations" ->
           Endpoint("conversations.twilio.com", "Conversations")
      [] flow = "sync_services" -> Endpoint("sync.twilio.com", "Services")
      [] flow = "documents" ->
           Endpoint("conversations.twilio.com", "Conversations")
      [] flow = "maps"          -> Endpoint("sync.twilio.com", "Maps")
      [] flow = "environments"  -> Endpoint("sync.twilio.com", "Lists")

\* the endpoint the library lists the flow's resources from (the list URL of
\* each family; the library's serverless Environments address the Sync
\* Documents URLs)
own_endpoint(flow) ==
    CASE flow = "conversations" ->
           Endpoint("conversations.twilio.com", "Conversations")
      [] flow = "sync_services" -> Endpoint("sync.twilio.com", "Services")
      [] flow = "documents"     -> Endpoint("sync.twilio.com", "Documents")
      [] flow = "maps"          -> Endpoint("sync.twilio.com", "Maps")
      [] flow = "environments"  -> Endpoint("sync.twilio.com", "Documents")

\* Vec::remove
Removed(list, i) ==
    [k \in 1..(Len(list) - 1) |-> IF k < i THEN list[k] ELSE list[k + 1]]

Did(action, at, sid, answer, issued, o) ==
    [action |-> action, entry |-> at, sid |-> sid, answer |-> answer,
     issued |-> issued, outcome |-> o]

FlowInit ==
    /\ client = [config |-> TestConfig]
    /\ ExceptFlowIdle
    /\ FlowIdle

\* a flow is entered and its list fetched
FlowOpen ==
    /\ fpc = "idle"
    /\ \E flow \in Flows :
         \E n \in 1..MaxEntries :
            \E names \in [1..n -> Names(flow)] :
               /\ fflow' = flow
               /\ fmem' = [i \in 1..n |-> [sid |-> i, named |-> names[i]]]
    /\ fpc' = "list"
    /\ UNCHANGED <<fsel, flast, fsent, exceptFlowVars>>

\* the user picks a listed entry
SelectEntry ==
    /\ fpc = "list"
    /\ \E i \in DOMAIN fmem :
         LET found == locate(fflow, fmem, label(fflow, fmem[i]))
         IN  /\ flast' = Did("select", i, fmem[i].sid, "none", FALSE, "none")
             /\ fsel' = found.index
             /\ fpc' = IF found.panicked THEN "panicked" ELSE "actions"
    /\ UNCHANGED <<fflow, fmem, fsent, exceptFlowVars>>

\* "Create Sync Service": the new service is pushed and selected
CreateEntry ==
    /\ fpc = "list"
    /\ fflow = "sync_services"
    /\ Len(fmem) <= MaxEntries
    /\ \E o \in {"ok", "rejected"} :
         IF o = "ok"
         THEN /\ fmem' = Append(fmem, [sid |-> Len(fmem) + 1,
                                       named |-> "friendly"])
              /\ fsel' = Index(Len(fmem) + 1)
              /\ fpc' = "actions"
              /\ flast' = Did("create", Len(fmem) + 1, Len(fmem) + 1, "none",
                              TRUE, o)
         ELSE /\ fpc' = "panicked"
              /\ flast' = Did("create", 0, 0, "none", TRUE, o)
              /\ UNCHANGED <<fmem, fsel>>
    /\ UNCHANGED <<fflow, fsent, exceptFlowVars>>

\* Back at the list prompt
BackFromList ==
    /\ fpc = "list"
    /\ fpc' = "left"
    /\ flast' = Did("back", 0, 0, "none", FALSE, "none")
    /\ UNCHANGED <<fflow, fmem, fsel, fsent, exceptFlowVars>>

\* "List details" on the selected entry
ListDetails ==
    /\ fpc = "actions"
    /\ flast.action # "details"
    /\ flast' = Did("details", fsel.v, fmem[fsel.v].sid, "none", FALSE,
                    "none")
    /\ UNCHANGED <<fpc, fflow, fmem, fsel, fsent, exceptFlowVars>>

\* Back at the action prompt: the conversation flow clears the index and
\* lists again, the document flow leaves its inner loop with the index still
\* set, the others leave the flow
BackFromActions ==
    /\ fpc = "actions"
    /\ flast.action # "back"
    /\ flast' = Did("back", fsel.v, fmem[fsel.v].sid, "none", FALSE, "none")
    /\ fpc' = CASE fflow = "conversations" -> "list"
                [] fflow = "documents" -> "actions"
                [] OTHER -> "left"
    /\ fsel' = IF fflow = "conversations" THEN NoIndex ELSE fsel
    /\ UNCHANGED <<fflow, fmem, fsent, exceptFlowVars>>

\* "Delete" on the selected entry
DeleteEntry ==
    /\ fpc = "actions"
    /\ \E answer \in PromptAnswers :
         \E o \in IF answer = "yes" THEN DeleteOutcomes ELSE {"none"} :
            LET d == delete_selected(fflow, answer, o)
                sid == fmem[fsel.v].sid
            IN  /\ flast' = Did("delete", fsel.v, sid, answer, d.issued,
                                o)
                /\ fsent' = IF d.issued
                            THEN Append(fsent, [endpoint |->
                                                  delete_endpoint(fflow),
                                                sid |-> sid])
                            ELSE fsent
                /\ fmem' = IF d.removed THEN Removed(fmem, fsel.v) ELSE fmem
                /\ fsel' = IF d.clear THEN NoIndex ELSE fsel
                /\ fpc' = d.pc
    /\ UNCHANGED <<fflow, exceptFlowVars>>

FlowNext ==
    \/ FlowOpen
    \/ SelectEntry
    \/ CreateEntry
    \/ BackFromList
    \/ ListDetails
    \/ BackFromActions
    \/ DeleteEntry

FlowSpec == FlowInit /\ [][FlowNext]_vars

\* C26: an entry leaves the in-memory list only in a Delete whose request was
\* issued and answered with success; a declined confirmation or a 404 leaves
\* the list as it was.
C26_RemovedOnlyAfterSuccessfulDelete ==
    [][Len(fmem') < Len(fmem) =>
          /\ flast'.action = "delete"
          /\ flast'.issued
          /\ flast'.outcome = "ok"]_vars

\* C27: while a flow runs, the selected index is within the list, and after
\* the user picks an entry the flow is at the action prompt with the index of
\* that very entry, whatever names the entry carries.
C27_SelectedIndexIsEntryChosen ==
    /\ (fpc \in {"list", "actions"} /\ fsel.some) => fsel.v \in DOMAIN fmem
    /\ flast.action = "select" =>
          /\ fpc = "actions"
          /\ fsel.some
          /\ fmem[fsel.v].sid = flast.sid

\* C28: every DELETE a flow issues addresses the endpoint of the family its
\* resources were listed from.
C28_DeleteTargetsOwnFamily ==
    \A i \in DOMAIN fsent : fsent[i].endpoint = own_endpoint(fflow)

\* ---------------------------------------------------------------------------
\* Account status actions of the two shells: Activate, Suspend, Close on the
\* account selected from the list.
\* ---------------------------------------------------------------------------

MaxUpdates == 4

StatusActions == {"Activate", "Suspend", "Close"}

\* the actions the menu offers for an account of a status
actions_offered(status) ==
    CASE status = "active"    -> {"Suspend", "Close"}
      [] status = "suspended" -> {"Activate"}
      [] OTHER                -> {}

\* the status an action announces ("Activating account...", ...)
announced_status(action) ==
    CASE action = "Activate" -> "active"
      [] action = "Suspend"  -> "suspended"
      [] action = "Close"    -> "closed"

\* the Status the action's update request carries
status_sent(variant, action) ==
    CASE action = "Activate" -> "suspended"
      [] action = "Suspend"  -> "suspended"
      [] action = "Close"    -> "suspended"

\* the Status the shell writes into the in-memory account
status_recorded(variant, action) ==
    CASE action = "Activate" -> "active"
      [] action = "Suspend"  -> "suspended"
      [] action = "Close"    -> "closed"

\* one status action: whether the request is issued, whether the shell
\* panics, and whether the in-memory account is written.  twilio_cli writes
\* inside the confirmed branch; twilly_cli writes after the function returned,
\* whatever the confirmation was.
status_action(variant, answer, o) ==
    LET confirmed == answer = "yes"
    IN  [issued |-> confirmed,
         panicked |-> confirmed /\ o # "ok",
         recorded |-> IF variant = "twilly_cli"
                      THEN ~(confirmed /\ o # "ok")
                      ELSE confirmed /\ o = "ok"]

AcctInit ==
    /\ client = [config |-> TestConfig]
    /\ ExceptAcctIdle
    /\ AcctIdle

\* an account is selected from the list
AccountSelected ==
    /\ apc = "idle"
    /\ \E variant \in {"twilly_cli", "twilio_cli"} :
         acall' = [acall EXCEPT !.variant = variant]
    /\ \E status \in {"active", "suspended"} :
         /\ astatus' = status
         /\ aremote' = status
    /\ apc' = "selected"
    /\ UNCHANGED <<asent, exceptAcctVars>>

\* the user chooses one of the status actions offered and answers the
\* confirmation
StatusAction ==
    /\ apc = "selected"
    /\ Len(asent) < MaxUpdates
    /\ \E action \in actions_offered(astatus) :
         \E answer \in PromptAnswers :
            \E o \in IF answer = "yes" THEN RequestOutcomes ELSE {"none"} :
               LET a == status_action(acall.variant, answer, o)
                   sent == status_sent(acall.variant, action)
               IN  /\ acall' = [variant |-> acall.variant, action |-> action,
                                answer |-> answer, issued |-> a.issued,
                                outcome |-> o]
                   /\ asent' = IF a.issued THEN Append(asent, sent) ELSE asent
                   /\ aremote' = IF a.issued /\ Applied(o) THEN sent
                                 ELSE aremote
                   /\ astatus' = IF a.recorded
                                 THEN status_recorded(acall.variant, action)
                                 ELSE astatus
                   /\ apc' = IF a.panicked THEN "panicked" ELSE "selected"
    /\ UNCHANGED exceptAcctVars

AcctNext == AccountSelected \/ StatusAction

AcctSpec == AcctInit /\ [][AcctNext]_vars

\* C29: after a status action whose request was sent and answered with
\* success, the request carried the status the action announces and the
\* in-memory account has the status that was sent.
C29_StatusSentIsStatusAnnounced ==
    (acall.action \in StatusActions /\ acall.issued /\ acall.outcome = "ok") =>
        /\ asent[Len(asent)] = announced_status(acall.action)
        /\ astatus = asent[Len(asent)]

\* ---------------------------------------------------------------------------
\* Startup of the two shells (main): the stored profile is loaded, the
\* credentials are asked for when there is none (or, in twilly_cli, when the
\* user declines it), the account is checked for new credentials, and the
\* profile is stored.
\* ---------------------------------------------------------------------------

\* the credentials a user can enter, next to the profile "stored" on disk
EnteredConfigs == {"entered", "mistyped"}

\* how the account check can go: RequestOutcomes, and a 401 for credentials
\* Twilio does not know
CheckOutcomes == RequestOutcomes \cup {"unauthorized"}

\* where main goes after a step
startup_after_mut_store_unchecked(variant, step, went, loaded) ==
    CASE step = "load" ->
           IF went = "empty" THEN "credentials"
           ELSE IF variant = "twilly_cli" THEN "confirm" ELSE "client"
      [] step = "confirm" ->
           CASE went = "yes" -> "client"
             [] went = "no"  -> "credentials"
             [] OTHER        -> "panicked"
      [] step = "credentials" ->
           IF went = "entered" THEN "client" ELSE "panicked"
      [] step = "client" -> IF loaded THEN "menu" ELSE "check"
      [] step = "check" -> "store"
      [] step = "store" -> "menu"

startup_after(variant, step, went, loaded) ==
    CASE step = "load" ->
           IF went = "empty" THEN "credentials"
           ELSE IF variant = "twilly_cli" THEN "confirm" ELSE "client"
      [] step = "confirm" ->
           CASE went = "yes" -> "client"
             [] went = "no"  -> "credentials"
             [] OTHER        -> "panicked"
      [] step = "credentials" ->
           IF went = "entered" THEN "client" ELSE "panicked"
      [] step = "client" -> IF loaded THEN "menu" ELSE "check"
      [] step = "check" -> IF went = "ok" THEN "store" ELSE "panicked"
      [] step = "store" -> "menu"

\* the loaded_config flag after a step: twilly_cli starts with false and sets
\* it when the user accepts the profile, twilio_cli starts with true and
\* clears it when the profile is empty
loaded_after(variant, step, went, loaded) ==
    CASE step = "start" -> variant = "twilio_cli"
      [] step = "load" /\ variant = "twilio_cli" /\ went = "empty" -> FALSE
      [] step = "confirm" /\ went = "yes" -> TRUE
      [] OTHER -> loaded

Event(step, went, config) == [step |-> step, went |-> went, config |-> config]

StartInit ==
    /\ client = [config |-> TestConfig]
    /\ ExceptStartIdle
    /\ StartIdle

\* one step of main: the flag, the position and the log
StartupStep(step, went, config) ==
    /\ stpc = step
    /\ stloaded' = loaded_after(stvariant, step, went, stloaded)
    /\ stpc' = startup_after(stvariant, step, went, stloaded)
    /\ stlog' = Append(stlog, Event(step, went, config))

\* a shell is started with no profile on disk, with one that lacks the auth
\* token, or with a full one
MainStarted ==
    /\ stpc = "idle"
    /\ \E variant \in {"twilly_cli", "twilio_cli"} :
         /\ stvariant' = variant
         /\ stloaded' = loaded_after(variant, "start", "none", stloaded)
    /\ \E disk \in {"", "partial", "stored"} :
         /\ stdisk' = disk
         /\ stlog' = <<Event("start", "none", disk)>>
    /\ stpc' = "load"
    /\ UNCHANGED <<stconfig, exceptStartVars>>

\* confy::load gives the stored profile, or the default (empty) one when
\* there is none or it cannot be read; a config with an empty account_sid or
\* auth_token counts as no profile
LoadProfile ==
    /\ \E read \in IF stdisk = "" THEN {FALSE} ELSE {TRUE, FALSE} :
         /\ stconfig' = IF read THEN stdisk ELSE ""
         /\ StartupStep("load",
                        IF stconfig' \in {"", "partial"} THEN "empty"
                        ELSE "found",
                        stconfig')
    /\ UNCHANGED <<stvariant, stdisk, exceptStartVars>>

\* twilly_cli: "Account (...) found in memory. Use this profile?"
ConfirmProfile ==
    /\ \E answer \in PromptAnswers : StartupStep("confirm", answer, stconfig)
    /\ UNCHANGED <<stvariant, stconfig, stdisk, exceptStartVars>>

\* request_credentials: a cancelled prompt gives "", which TwilioConfig::build
\* rejects with a panic
RequestCredentials ==
    /\ \/ \E config \in EnteredConfigs :
            /\ stconfig' = config
            /\ StartupStep("credentials", "entered", config)
       \/ /\ stconfig' = stconfig
          /\ StartupStep("credentials", "cancelled", "")
    /\ UNCHANGED <<stvariant, stdisk, exceptStartVars>>

\* Client::new, then if !loaded_config
ClientBuilt ==
    /\ stpc = "client"
    /\ stpc' = startup_after(stvariant, "client", "none", stloaded)
    /\ UNCHANGED <<stvariant, stloaded, stconfig, stdisk, stlog,
                   exceptStartVars>>

\* "Checking account...": accounts().get(None), unwrap_or_else(panic)
CheckAccount ==
    /\ \E o \in CheckOutcomes : StartupStep("check", o, stconfig)
    /\ UNCHANGED <<stvariant, stconfig, stdisk, exceptStartVars>>

\* confy::store: a failure is printed and main goes on
StoreProfile ==
    /\ \E went \in {"ok", "failed"} :
         /\ StartupStep("store", went, stconfig)
         /\ stdisk' = IF went = "ok" THEN stconfig ELSE stdisk
    /\ UNCHANGED <<stvariant, stconfig, exceptStartVars>>

StartNext ==
    \/ MainStarted
    \/ LoadProfile
    \/ ConfirmProfile
    \/ RequestCredentials
    \/ ClientBuilt
    \/ CheckAccount
    \/ StoreProfile

StartSpec == StartInit /\ [][StartNext]_vars

Checks == {i \in DOMAIN stlog : stlog[i].step = "check"}
Stores == {i \in DOMAIN stlog : stlog[i].step = "store"}
ProfileAccepted ==
    \E i \in DOMAIN stlog :
       \/ stlog[i].step = "confirm" /\ stlog[i].went = "yes"
       \/ stlog[i].step = "load" /\ stlog[i].went = "found"
          /\ stvariant = "twilio_cli"

\* C30: a profile write comes directly after a successful account check made
\* with the very credentials written, and the disk changes by such a write
\* only; a failed check is the last thing main does and leaves the disk as it
\* was; after a stored profile was accepted there is no check and no write.
C30_ProfileWrittenOnlyAfterCheck ==
    stlog # <<>> =>
        /\ \A i \in Stores :
              /\ i - 1 \in Checks
              /\ stlog[i - 1].went = "ok"
              /\ stlog[i - 1].config = stlog[i].config
        /\ stdisk # stlog[1].config =>
              \E i \in Stores : stlog[i].went = "ok" /\ stlog[i].config = stdisk
        /\ \A i \in Checks :
              stlog[i].went # "ok" =>
                 /\ i = Len(stlog)
                 /\ stpc = "panicked"
                 /\ stdisk = stlog[1].config
        /\ ProfileAccepted =>
              /\ Checks = {}
              /\ Stores = {}
              /\ stdisk = stlog[1].config

\* the stored profile was declined, new credentials were entered and checked,
\* and they are on disk now
C30_Witness_DeclinedThenStored ==
    /\ stpc = "menu"
    /\ \E i \in DOMAIN stlog : stlog[i].step = "confirm" /\ stlog[i].went = "no"
    /\ \E i \in Stores : stlog[i].went = "ok"
    /\ stdisk = stconfig
    /\ stdisk # stlog[1].config

====
